---------------------------- MODULE Spec2Model ----------------------------
(***************************************************************************)
(* A model of src/pipeline/ecological_analysis.py: the alpha-diversity     *)
(* indices, the Bray-Curtis distance matrix, PCoA, the two-group           *)
(* comparison and the Benjamini-Hochberg correction.                       *)
(*                                                                         *)
(* Real numbers are exact rationals <<numerator, denominator>> with a      *)
(* positive denominator, kept in lowest terms; <<0, 0>> is the IEEE NaN    *)
(* that numpy produces for 0.0/0.0 and for the mean of an empty array.     *)
(* Every call is a frame: pc is the control point, args the arguments,     *)
(* locals the local variables of the routine (under their source names),   *)
(* ret the value returned or the exception raised.                         *)
(***************************************************************************)
EXTENDS Integers, Sequences, FiniteSets, TLC

VARIABLES pc, args, locals, ret

vars == <<pc, args, locals, ret>>

(***************************************************************************)
(* Bounds of the model.                                                    *)
(***************************************************************************)
\* Longest table of raw p-values handed to fdr_correction.
MaxRows == 3

\* Longest vector of abundances handed to an alpha-diversity index.
MaxCounts == 3

\* Most samples (rows) of a matrix handed to distance_matrix, and of a
\* distance matrix handed to pcoa.
MaxSamples == 3

\* Largest n_components handed to pcoa.
MaxComponents == 3

\* Most features (rows) of an abundance table handed to compare_groups.
MaxFeatures == 2

\* Most calls a caller makes in a row on the objects it holds.
MaxCalls == 2

(***************************************************************************)
(* Rational arithmetic with NaN.                                           *)
(***************************************************************************)
RECURSIVE GCD(_, _)
GCD(a, b) == IF b = 0 THEN a ELSE GCD(b, a % b)

Abs(x) == IF x < 0 THEN -x ELSE x

NaN == <<0, 0>>

IsNaN(x) == x[2] = 0

\* n/d in lowest terms with a positive denominator; x/0 is NaN only for
\* x = 0 here (the model never divides a non-zero number by zero).
Frac(n, d) ==
    IF d = 0 THEN NaN
    ELSE LET g == GCD(Abs(n), Abs(d))
             s == IF d < 0 THEN -1 ELSE 1
         IN  <<(s * n) \div g, (s * d) \div g>>

Num(k) == <<k, 1>>

\* IEEE comparisons: every comparison with NaN is false.
FLt(x, y) == ~IsNaN(x) /\ ~IsNaN(y) /\ x[1] * y[2] < y[1] * x[2]

FLe(x, y) == ~IsNaN(x) /\ ~IsNaN(y) /\ x[1] * y[2] <= y[1] * x[2]

FAdd(x, y) ==
    IF IsNaN(x) \/ IsNaN(y) THEN NaN
    ELSE Frac(x[1] * y[2] + y[1] * x[2], x[2] * y[2])

FSub(x, y) ==
    IF IsNaN(x) \/ IsNaN(y) THEN NaN
    ELSE Frac(x[1] * y[2] - y[1] * x[2], x[2] * y[2])

FMul(x, y) ==
    IF IsNaN(x) \/ IsNaN(y) THEN NaN ELSE Frac(x[1] * y[1], x[2] * y[2])

\* x / y; 0/0 is NaN.  The callers guard every other division by zero.
FDiv(x, y) ==
    IF IsNaN(x) \/ IsNaN(y) THEN NaN ELSE Frac(x[1] * y[2], x[2] * y[1])

\* numpy/pandas minimum that skips NaN (cummin, skipna=True).
FMinSkipNaN(x, y) ==
    IF IsNaN(x) THEN y ELSE IF IsNaN(y) THEN x ELSE IF FLe(x, y) THEN x ELSE y

\* The order sort_values sorts by: ascending, NaN last.
SortLe(x, y) == IsNaN(y) \/ FLe(x, y)

\* The orders in which sort_values may leave the n rows whose keys are
\* key[1..n]: every permutation that is ascending with NaN last.  The
\* default sort (quicksort) is not stable, so rows with equal keys may come
\* out in any order.
SortOrders(key) ==
    LET n == Len(key)
    IN  {p \in [1..n -> 1..n] :
            /\ \A i, j \in 1..n : i # j => p[i] # p[j]
            /\ \A i \in 1..n : i < n => SortLe(key[p[i]], key[p[i + 1]])}

\* A sequence given as a function, evaluated once into a tuple (TLC would
\* otherwise evaluate the function's expression again at every use).
Tup(f) == f \o <<>>

Column(df, c) == [i \in 1..Len(df) |-> df[i][c]]

Reorder(df, p) == [i \in 1..Len(df) |-> df[p[i]]]

(***************************************************************************)
(* DifferentialAbundance.fdr_correction                                    *)
(***************************************************************************)
\* alpha: float = 0.05
Alpha == <<1, 20>>

\* clip(upper=1.0): NaN stays NaN.
ClipUpper1(x) == IF FLt(Num(1), x) THEN Num(1) ELSE x

\* The candidate with the factor n forgotten: p / rank.
BHCandidate_NoN(p, n, i) == ClipUpper1(FDiv(p, Num(i)))

\* The candidate with the rank taken one too high: p * n / (rank + 1).
BHCandidate_RankTooHigh(p, n, i) == ClipUpper1(FDiv(FMul(p, Num(n)), Num(i + 1)))

\* result_df["p_value"] * n / (result_df.index + 1), clipped; i is the
\* 1-based rank, that is the 0-based index plus one.
BHCandidate(p, n, i) == ClipUpper1(FDiv(FMul(p, Num(n)), Num(i)))

\* [::-1].cummin()[::-1]: the running minimum from the last row back; a NaN
\* entry stays NaN and is skipped by the minimum.
\* The minimum of an entry and the next one only.
RunningMin_NextOnly(c, i) ==
    IF i = Len(c) THEN c[i] ELSE FMinSkipNaN(c[i], c[i + 1])

RECURSIVE RunningMin(_, _)
RunningMin(c, i) ==
    IF i = Len(c) THEN c[i] ELSE FMinSkipNaN(c[i], RunningMin(c, i + 1))

\* The candidates left as they are, the backward scan forgotten.
CumMinFromEnd_NoScan(c, i) == c[i]

CumMinFromEnd(c, i) == IF IsNaN(c[i]) THEN NaN ELSE RunningMin(c, i)

\* The flag with <= in place of <.
Significant_OrEqual(padj, alpha) == FLe(padj, alpha)

\* result_df["p_adjusted"] < alpha
Significant(padj, alpha) == FLt(padj, alpha)

\* Every table corrected as if it held a single test.
LenResultDf_One(result_df) == IF Len(result_df) = 0 THEN 0 ELSE 1

\* n = len(result_df), the number of tests corrected for.
LenResultDf(result_df) == Len(result_df)

\* fdr_correction on a table sorted into the order p (one of
\* SortOrders(p_value column)): the returned table.
FdrCorrection(result_df, alpha, p) ==
    LET n      == LenResultDf(result_df)
        sorted == Reorder(result_df, p)
        cand   == [i \in 1..n |-> BHCandidate(sorted[i].p_value, n, i)]
    IN  [i \in 1..n |->
            LET padj == CumMinFromEnd(cand, i)
            IN  [p_adjusted |-> padj, significant |-> Significant(padj, alpha)]
                @@ sorted[i]]

(***************************************************************************)
(* Calls of fdr_correction on a table of raw p-values, and a second call   *)
(* on the table the first one returned, its adjusted p-values taken as the *)
(* raw ones.                                                               *)
(***************************************************************************)
\* Raw p-values the tables are drawn from, all in [0, 1].
PValues ==
    {<<0, 1>>, <<1, 100>>, <<1, 50>>, <<1, 25>>, <<1, 20>>, <<1, 2>>, <<1, 1>>}

Alphas == {Alpha, <<1, 10>>}

PTables ==
    UNION {[1..n -> [feature : {0}, p_value : PValues]] : n \in 0..MaxRows}

\* Feature ids are the positions of the rows in the caller's table.
Numbered(t) == [i \in 1..Len(t) |-> [t[i] EXCEPT !.feature = i]]

FdrInit ==
    /\ pc = "fdr_start"
    /\ \E t \in PTables, a \in Alphas :
           args = [result_df |-> Numbered(t), alpha |-> a]
    /\ locals = [first |-> <<>>]
    /\ ret = <<>>

FdrCall ==
    /\ pc = "fdr_start"
    /\ \E p \in SortOrders(Column(args.result_df, "p_value")) :
           ret' = FdrCorrection(args.result_df, args.alpha, p)
    /\ pc' = "fdr_once"
    /\ UNCHANGED <<args, locals>>

\* The table of the first call with p_adjusted as the new p_value.
AdjustedAsRaw(df) ==
    [i \in 1..Len(df) |->
        [feature |-> df[i].feature, p_value |-> df[i].p_adjusted]]

FdrCallAgain ==
    /\ pc = "fdr_once"
    /\ locals' = [first |-> ret]
    /\ args' = [args EXCEPT !.result_df = AdjustedAsRaw(ret)]
    /\ \E p \in SortOrders(Column(args'.result_df, "p_value")) :
           ret' = FdrCorrection(args'.result_df, args.alpha, p)
    /\ pc' = "fdr_twice"

FdrNext == FdrCall \/ FdrCallAgain

SpecFdr == FdrInit /\ [][FdrNext]_vars

(***************************************************************************)
(* AlphaDiversity                                                          *)
(***************************************************************************)
RECURSIVE FSum(_)
FSum(v) == IF v = <<>> THEN Num(0) ELSE FAdd(Head(v), FSum(Tail(v)))

\* The vector with its zeros kept.
Positive_KeepZeros(counts) == counts

\* counts[counts > 0]
Positive(counts) == SelectSeq(counts, LAMBDA c : FLt(Num(0), c))

\* counts * (counts - 1)
TimesPredecessor(counts) ==
    [i \in 1..Len(counts) |-> FMul(counts[i], FSub(counts[i], Num(1)))]

SimpsonIndex(counts) ==
    LET c == Positive(counts)
        n_total == FSum(c)
        d == FDiv(FSum(TimesPredecessor(c)),
                  FMul(n_total, FSub(n_total, Num(1))))
    IN  IF Len(c) = 0 THEN Num(0)
        ELSE IF FLe(n_total, Num(1)) THEN Num(0)
        ELSE FSub(Num(1), d)

\* A float that is given exactly, and floats built from natural logarithms,
\* which are kept as the expression they are the value of:
\*   [neg_sum_p_ln_p |-> p]             is -sum(p[i] * ln(p[i])),
\*   [neg_sum_p_ln_p |-> p, over_ln |-> s]  is that sum divided by ln(s).
Exact(q) == [exact |-> q]

\* counts / counts.sum()
Proportions(counts) ==
    [i \in 1..Len(counts) |-> FDiv(counts[i], FSum(counts))]

ShannonIndex(counts) ==
    LET c == Positive(counts)
    IN  IF Len(c) = 0 THEN Exact(Num(0))
        ELSE [neg_sum_p_ln_p |-> Proportions(c)]

\* np.sum(counts == k)
CountEqual(counts, k) ==
    Len(SelectSeq(counts, LAMBDA c : c = Num(k)))

\* The estimator without its branch for no doubletons.
Chao1Estimator_AlwaysDivides(counts) ==
    LET c == Positive(counts)
    IN  FAdd(Num(Len(c)),
             FDiv(Num(CountEqual(c, 1) * CountEqual(c, 1)),
                  Num(2 * CountEqual(c, 2))))

Chao1Estimator(counts) ==
    LET c == Positive(counts)
        s_obs == Len(c)
        f1 == CountEqual(c, 1)
        f2 == CountEqual(c, 2)
    IN  IF f2 = 0
        THEN FAdd(Num(s_obs), Frac(f1 * (f1 - 1), 2))
        ELSE FAdd(Num(s_obs), Frac(f1 * f1, 2 * f2))

\* int(np.sum(counts > 0))
ObservedRichness(counts) == Len(Positive(counts))

\* The evenness guard admitting a richness of 1.
RichnessTooSmall_Below1(richness) == richness < 1

\* richness <= 1
RichnessTooSmall(richness) == richness <= 1

PielouEvenness(counts) ==
    LET shannon == ShannonIndex(counts)
        richness == ObservedRichness(counts)
    IN  IF RichnessTooSmall(richness) THEN Exact(Num(0))
        ELSE [neg_sum_p_ln_p |-> shannon.neg_sum_p_ln_p, over_ln |-> richness]

\* Abundances the vectors are drawn from: raw integer counts and
\* normalized, fractional values.
CountValues == {<<0, 1>>, <<1, 2>>, <<1, 1>>, <<3, 2>>, <<2, 1>>, <<3, 1>>}

IsInteger(x) == x[2] = 1

CountVectors == UNION {[1..n -> CountValues] : n \in 0..MaxCounts}

AlphaInit ==
    /\ pc = "alpha_start"
    /\ \E c \in CountVectors : args = [counts |-> c]
    /\ locals = <<>>
    /\ ret = <<>>

ShannonCall ==
    /\ pc = "alpha_start"
    /\ ret' = ShannonIndex(args.counts)
    /\ pc' = "shannon_done"
    /\ UNCHANGED <<args, locals>>

SimpsonCall ==
    /\ pc = "alpha_start"
    /\ ret' = SimpsonIndex(args.counts)
    /\ pc' = "simpson_done"
    /\ UNCHANGED <<args, locals>>

Chao1Call ==
    /\ pc = "alpha_start"
    /\ ret' = Chao1Estimator(args.counts)
    /\ pc' = "chao1_done"
    /\ UNCHANGED <<args, locals>>

RichnessCall ==
    /\ pc = "alpha_start"
    /\ ret' = ObservedRichness(args.counts)
    /\ pc' = "richness_done"
    /\ UNCHANGED <<args, locals>>

PielouCall ==
    /\ pc = "alpha_start"
    /\ ret' = PielouEvenness(args.counts)
    /\ pc' = "pielou_done"
    /\ UNCHANGED <<args, locals>>

AlphaNext == ShannonCall \/ SimpsonCall \/ Chao1Call \/ RichnessCall \/ PielouCall

SpecAlpha == AlphaInit /\ [][AlphaNext]_vars

(***************************************************************************)
(* BetaDiversity: bray_curtis_distance and distance_matrix                 *)
(***************************************************************************)
FAbs(x) == IF IsNaN(x) THEN NaN ELSE <<Abs(x[1]), x[2]>>

\* scipy.spatial.distance.braycurtis, and the "braycurtis" metric of pdist:
\* sum |u - v| / sum |u + v|, a plain float division, so 0.0/0.0 is NaN
\* when both vectors are all zero.
Braycurtis(u, v) ==
    FDiv(FSum([k \in 1..Len(u) |-> FAbs(FSub(u[k], v[k]))]),
         FSum([k \in 1..Len(u) |-> FAbs(FAdd(u[k], v[k]))]))

\* bray_curtis_distance(sample1, sample2)
BrayCurtisDistance(sample1, sample2) == Braycurtis(sample1, sample2)

\* squareform(pdist(abundance_matrix, metric)): pdist computes the metric
\* for the pairs i < j only, squareform mirrors them and leaves the diagonal
\* zero (a single row gives the 1 x 1 zero matrix).
SquareformPdist(abundance_matrix) ==
    LET m == Len(abundance_matrix)
    IN  [i \in 1..m |-> [j \in 1..m |->
            IF i = j THEN Num(0)
            ELSE IF i < j
                 THEN Braycurtis(abundance_matrix[i], abundance_matrix[j])
                 ELSE Braycurtis(abundance_matrix[j], abundance_matrix[i])]]

\* distance_matrix(abundance_matrix, sample_ids, metric="braycurtis"): the
\* DataFrame, its index, its columns and its values.
DistanceMatrix(abundance_matrix, sample_ids) ==
    [index |-> sample_ids, columns |-> sample_ids,
     values |-> SquareformPdist(abundance_matrix)]

\* (np.array(sample) > 0).astype(float)
Binarize(sample) ==
    [k \in 1..Len(sample) |-> IF FLt(Num(0), sample[k]) THEN Num(1) ELSE Num(0)]

\* scipy.spatial.distance.jaccard on the vectors as given: of the positions
\* where u or v is non-zero, the fraction where u and v differ; 0 when no
\* position is non-zero.
Jaccard(u, v) ==
    LET nonzero == {k \in 1..Len(u) : u[k] # Num(0) \/ v[k] # Num(0)}
        unequal_nonzero == {k \in nonzero : u[k] # v[k]}
    IN  IF nonzero = {} THEN Num(0)
        ELSE Frac(Cardinality(unequal_nonzero), Cardinality(nonzero))

\* jaccard_distance(sample1, sample2)
JaccardDistance(sample1, sample2) == Jaccard(Binarize(sample1), Binarize(sample2))

\* The "jaccard" metric of pdist on a float matrix depends on the scipy
\* release: it compares the values as given, or it reads every non-zero
\* value as True.
PdistJaccardKernels == {"as_given", "as_bool"}

PdistJaccard(u, v, kernel) ==
    IF kernel = "as_bool" THEN Jaccard(Binarize(u), Binarize(v)) ELSE Jaccard(u, v)

\* distance_matrix(abundance_matrix, sample_ids, metric="jaccard")
JaccardMatrix(abundance_matrix, sample_ids, kernel) ==
    LET m == Len(abundance_matrix)
    IN  [index |-> sample_ids, columns |-> sample_ids,
         values |-> [i \in 1..m |-> [j \in 1..m |->
            IF i = j THEN Num(0)
            ELSE IF i < j
                 THEN PdistJaccard(abundance_matrix[i], abundance_matrix[j], kernel)
                 ELSE PdistJaccard(abundance_matrix[j], abundance_matrix[i], kernel)]]]

\* Sample and feature identifiers, and the abundances of the matrices.
SampleIds == <<"s1", "s2", "s3", "s4", "s5">>

FeatureIds == <<"blaTEM", "tetM">>

Abundances == {<<0, 1>>, <<1, 1>>, <<2, 1>>}

\* Samples x features matrices (abundance_df.T.values) with their ids.
SampleRows == [1..Len(FeatureIds) -> Abundances]

BetaInit ==
    /\ pc = "beta_start"
    /\ \E m \in 1..MaxSamples : \E x \in [1..m -> SampleRows] :
           args = [abundance_matrix |-> x, sample_ids |-> SubSeq(SampleIds, 1, m)]
    /\ locals = <<>>
    /\ ret = <<>>

\* bray_curtis_distance on two sample vectors of the matrix (a sample with
\* itself included).
BrayCurtisCall ==
    /\ pc = "beta_start"
    /\ \E i, j \in 1..Len(args.abundance_matrix) :
           /\ locals' = [sample1 |-> args.abundance_matrix[i],
                         sample2 |-> args.abundance_matrix[j]]
           /\ ret' = BrayCurtisDistance(args.abundance_matrix[i],
                                        args.abundance_matrix[j])
    /\ pc' = "bray_curtis_done"
    /\ UNCHANGED args

DistanceMatrixCall ==
    /\ pc = "beta_start"
    /\ ret' = DistanceMatrix(args.abundance_matrix, args.sample_ids)
    /\ pc' = "distance_matrix_done"
    /\ UNCHANGED <<args, locals>>

\* jaccard_distance on two sample vectors of the matrix.
JaccardCall ==
    /\ pc = "beta_start"
    /\ \E i, j \in 1..Len(args.abundance_matrix) :
           /\ locals' = [sample1 |-> args.abundance_matrix[i],
                         sample2 |-> args.abundance_matrix[j]]
           /\ ret' = JaccardDistance(args.abundance_matrix[i],
                                     args.abundance_matrix[j])
    /\ pc' = "jaccard_done"
    /\ UNCHANGED args

JaccardMatrixCall ==
    /\ pc = "beta_start"
    /\ \E kernel \in PdistJaccardKernels :
           ret' = JaccardMatrix(args.abundance_matrix, args.sample_ids, kernel)
    /\ pc' = "jaccard_matrix_done"
    /\ UNCHANGED <<args, locals>>

BetaNext == BrayCurtisCall \/ DistanceMatrixCall \/ JaccardCall \/ JaccardMatrixCall

SpecBeta == BetaInit /\ [][BetaNext]_vars

(***************************************************************************)
(* BetaDiversity.pcoa                                                      *)
(***************************************************************************)
\* np.array(distance_matrix) ** 2
DistSq(d) ==
    Tup([i \in 1..Len(d) |-> Tup([j \in 1..Len(d) |-> FMul(d[i][j], d[i][j])])])

\* dist_sq.mean(axis=1), dist_sq.mean(axis=0) and dist_sq.mean()
RowMeans(m) == Tup([i \in 1..Len(m) |-> FDiv(FSum(m[i]), Num(Len(m)))])

ColMeans(m) ==
    Tup([j \in 1..Len(m) |->
            FDiv(FSum([i \in 1..Len(m) |-> m[i][j]]), Num(Len(m)))])

GrandMean(m) ==
    FDiv(FSum([i \in 1..Len(m) |-> FSum(m[i])]), Num(Len(m) * Len(m)))

\* B = -0.5 * (dist_sq - row_means - col_means + grand_mean)
DoubleCenter(dist_sq) ==
    LET row_means  == RowMeans(dist_sq)
        col_means  == ColMeans(dist_sq)
        grand_mean == GrandMean(dist_sq)
    IN  Tup([i \in 1..Len(dist_sq) |-> Tup([j \in 1..Len(dist_sq) |->
            FMul(<<-1, 2>>,
                 FAdd(FSub(FSub(dist_sq[i][j], row_means[i]), col_means[j]),
                      grand_mean))])])

(***************************************************************************)
(* np.linalg.eigh(B), by what it computes: the eigenvalues of the          *)
(* symmetric matrix B in ascending order, each with its eigenvector as the *)
(* column of the same position.  The eigenvalues are found exactly, as the *)
(* integer roots of det(K*B - x*I) with K = 2*n*n (K*B is an integer       *)
(* matrix when the distances are integers), taken with the multiplicities  *)
(* that give K*B its power sums trace((K*B)^k), k = 1..n.  The model draws *)
(* only distance matrices whose spectrum is of this kind.  An eigenvector  *)
(* is named by its column in eigh's result.                                *)
(***************************************************************************)
RECURSIVE ISum(_)
ISum(v) == IF v = <<>> THEN 0 ELSE Head(v) + ISum(Tail(v))

Minor(m, j) ==
    Tup([r \in 1..(Len(m) - 1) |-> Tup([c \in 1..(Len(m) - 1) |->
        m[r + 1][IF c < j THEN c ELSE c + 1]])])

RECURSIVE Det(_)
Det(m) ==
    IF Len(m) = 1 THEN m[1][1]
    ELSE ISum([j \in 1..Len(m) |->
                 IF m[1][j] = 0 THEN 0
                 ELSE (IF j % 2 = 1 THEN 1 ELSE -1) * m[1][j] * Det(Minor(m, j))])

MatMul(a, b) ==
    Tup([i \in 1..Len(a) |-> Tup([j \in 1..Len(a) |->
        ISum([k \in 1..Len(a) |-> a[i][k] * b[k][j]])])])

RECURSIVE MatPow(_, _)
MatPow(m, k) == IF k = 1 THEN m ELSE MatMul(m, MatPow(m, k - 1))

Trace(m) == ISum([i \in 1..Len(m) |-> m[i][i]])

RECURSIVE IPow(_, _)
IPow(x, k) == IF k = 0 THEN 1 ELSE x * IPow(x, k - 1)

EighScale(n) == 2 * n * n

\* K * B as integers.
Scaled(B) ==
    Tup([i \in 1..Len(B) |-> Tup([j \in 1..Len(B) |->
        FMul(B[i][j], Num(EighScale(Len(B))))[1]])])

IsIntegral(B) ==
    \A i, j \in 1..Len(B) : FMul(B[i][j], Num(EighScale(Len(B))))[2] = 1

\* Every eigenvalue lies within the largest absolute row sum.
RowSumBound(m) ==
    LET sums == {ISum([j \in 1..Len(m) |-> Abs(m[i][j])]) : i \in 1..Len(m)}
    IN  CHOOSE g \in sums : \A h \in sums : h <= g

IntegerRoots(m) ==
    LET g == RowSumBound(m)
    IN  {x \in (-g)..g :
            Det(Tup([i \in 1..Len(m) |-> Tup([j \in 1..Len(m) |->
                    IF i = j THEN m[i][j] - x ELSE m[i][j]])])) = 0}

\* trace(m^k) for k = 1..n
PowerSums(m) == Tup([k \in 1..Len(m) |-> Trace(MatPow(m, k))])

\* The ascending tuples over roots with the power sums p: none, or the one
\* spectrum.
SpectraAmong(roots, p) ==
    {w \in [1..Len(p) -> roots] :
        /\ \A i \in 1..(Len(p) - 1) : w[i] <= w[i + 1]
        /\ \A k \in 1..Len(p) :
               ISum([i \in 1..Len(p) |-> IPow(w[i], k)]) = p[k]}

Spectra(B) ==
    UNION {SpectraAmong(IntegerRoots(m), PowerSums(m)) : m \in {Scaled(B)}}

HasIntegerSpectrum(B) == IsIntegral(B) /\ Spectra(B) # {}

\* The eigenvalues eigh returns, ascending.
EighValues(B) ==
    CHOOSE v \in {Tup([i \in 1..Len(B) |-> Frac(w[i], EighScale(Len(B)))]) :
                     w \in Spectra(B)} : TRUE

\* The ascending order, not reversed.
ArgsortDescending_Ascending(eigenvalues) == SortOrders(eigenvalues)

\* np.argsort(eigenvalues)[::-1]: an ascending order of the eigenvalues
\* (equal ones in any order), reversed.
ArgsortDescending(eigenvalues) ==
    {[i \in 1..Len(eigenvalues) |-> p[Len(eigenvalues) + 1 - i]] :
        p \in SortOrders(eigenvalues)}

\* x[:n_components]
Take(x, n_components) ==
    SubSeq(x, 1, IF n_components < Len(x) THEN n_components ELSE Len(x))

\* np.maximum(x, 0)
Maximum0(x) == [i \in 1..Len(x) |-> IF FLt(x[i], Num(0)) THEN Num(0) ELSE x[i]]

\* total_variance = np.sum(np.maximum(eigenvalues, 0)), computed after
\* eigenvalues was cut to its first n_components entries.
TotalVariance(eigenvalues) == FSum(Maximum0(eigenvalues))

\* eigenvalues / total_variance if total_variance > 0 else eigenvalues
ExplainedVariance(eigenvalues, total_variance) ==
    IF FLt(Num(0), total_variance)
    THEN [i \in 1..Len(eigenvalues) |-> FDiv(eigenvalues[i], total_variance)]
    ELSE eigenvalues

\* eigenvectors * np.sqrt(np.maximum(eigenvalues, 0)): column k is the
\* eigenvector eigenvectors[k] times the square root of scale_sq.
Coordinates(eigenvectors, eigenvalues) ==
    [k \in 1..Len(eigenvalues) |->
        [eigenvector |-> eigenvectors[k], scale_sq |-> Maximum0(eigenvalues)[k]]]

\* [f"PC{i+1}" for i in range(n_components)]
PCNames == <<"PC1", "PC2", "PC3", "PC4", "PC5">>

PCColumns(n_components) == SubSeq(PCNames, 1, n_components)

\* Distances the matrices are drawn from.
Distances == {<<0, 1>>, <<1, 1>>}

\* Symmetric n x n matrices with a zero diagonal.
SquareDistances(n) ==
    LET pairs == {q \in (1..n) \X (1..n) : q[1] < q[2]}
    IN  {Tup([i \in 1..n |-> Tup([j \in 1..n |->
                IF i = j THEN Num(0)
                ELSE IF i < j THEN u[<<i, j>>] ELSE u[<<j, i>>]])]) :
            u \in [pairs -> Distances]}

PcoaInit ==
    /\ pc = "pcoa_start"
    /\ \E n \in 1..MaxSamples, k \in 1..MaxComponents :
         \E d \in SquareDistances(n) :
           /\ \E B \in {DoubleCenter(DistSq(d))} : HasIntegerSpectrum(B)
           /\ args = [distance_matrix |->
                         [index |-> SubSeq(SampleIds, 1, n),
                          columns |-> SubSeq(SampleIds, 1, n), values |-> d],
                      n_components |-> k]
    /\ locals = <<>>
    /\ ret = <<>>

\* Lines 233-249: square, double-center, eigendecompose, sort descending.
PcoaEigh ==
    /\ pc = "pcoa_start"
    /\ \E B \in {DoubleCenter(DistSq(args.distance_matrix.values))} :
         \E w \in {EighValues(B)} : \E idx \in ArgsortDescending(w) :
             locals' = [eigh_eigenvalues |-> w,
                        idx |-> idx,
                        eigenvalues |-> [i \in 1..Len(w) |-> w[idx[i]]],
                        eigenvectors |-> idx]
    /\ pc' = "pcoa_sorted"
    /\ UNCHANGED <<args, ret>>

\* Lines 251-260: keep the top components, scale them, explained variance.
PcoaProject ==
    /\ pc = "pcoa_sorted"
    /\ LET eigenvalues  == Take(locals.eigenvalues, args.n_components)
           eigenvectors == Take(locals.eigenvectors, args.n_components)
           total_variance == TotalVariance(eigenvalues)
       IN  locals' = [locals EXCEPT
                        !.eigenvalues = eigenvalues,
                        !.eigenvectors = eigenvectors] @@
                     [coordinates |-> Coordinates(eigenvectors, eigenvalues),
                      total_variance |-> total_variance,
                      explained_variance |->
                          ExplainedVariance(eigenvalues, total_variance)]
    /\ pc' = "pcoa_projected"
    /\ UNCHANGED <<args, ret>>

\* Lines 262-268: pd.DataFrame(coordinates, index, columns) raises
\* ValueError when the number of columns of coordinates is not the number
\* of column names; otherwise the pair is returned.
PcoaFrame ==
    /\ pc = "pcoa_projected"
    /\ ret' = IF Len(locals.coordinates) # Len(PCColumns(args.n_components))
              THEN [raised |-> "ValueError"]
              ELSE [raised |-> "",
                    coord_df |-> [index |-> args.distance_matrix.index,
                                  columns |-> PCColumns(args.n_components),
                                  values |-> locals.coordinates],
                    explained_variance |-> locals.explained_variance]
    /\ pc' = "pcoa_done"
    /\ UNCHANGED <<args, locals>>

PcoaNext == PcoaEigh \/ PcoaProject \/ PcoaFrame

SpecPcoa == PcoaInit /\ [][PcoaNext]_vars

(***************************************************************************)
(* DifferentialAbundance.compare_groups                                    *)
(*                                                                         *)
(* abundance_df is [index, columns, values]: the feature ids, the sample   *)
(* ids and one row of values per feature.  group_labels is the Series      *)
(* [index, values]: sample ids and their labels.                           *)
(***************************************************************************)
\* group1_name and group2_name defaults, and a label that is neither.
NonMedical == "non_medical"

MedicalInfluenced == "medical_influenced"

OtherLabel == "hospital_effluent"

\* Every labelled sample, whatever its label.
GroupSamples_AnyLabel(group_labels, name) == group_labels.index

\* group_labels[group_labels == name].index
GroupSamples(group_labels, name) ==
    LET keep == SelectSeq([i \in 1..Len(group_labels.index) |-> i],
                          LAMBDA i : group_labels.values[i] = name)
    IN  [k \in 1..Len(keep) |-> group_labels.index[keep[k]]]

Elems(q) == {q[i] : i \in 1..Len(q)}

PositionOf(q, x) == CHOOSE i \in 1..Len(q) : q[i] = x

\* abundance_df.loc[feature, samples] raises KeyError when a sample is not
\* a column of abundance_df.
LocRaises(abundance_df, samples) == ~(Elems(samples) \subseteq Elems(abundance_df.columns))

\* abundance_df.loc[feature, samples].values for the feature at row i.
LocValues(abundance_df, i, samples) ==
    [k \in 1..Len(samples) |->
        abundance_df.values[i][PositionOf(abundance_df.columns, samples[k])]]

\* The skip test with "or" in place of "and".
BothGroupsZero_Either(group1_values, group2_values) ==
    FSum(group1_values) = Num(0) \/ FSum(group2_values) = Num(0)

\* group1_values.sum() == 0 and group2_values.sum() == 0
BothGroupsZero(group1_values, group2_values) ==
    FSum(group1_values) = Num(0) /\ FSum(group2_values) = Num(0)

\* values.mean(): NaN for an empty array.
Mean(values) == FDiv(FSum(values), Num(Len(values)))

\* The U statistic of the first group: the pairs (x, y) with x > y, plus
\* half the pairs with x = y.
UStatistic(group1, group2) ==
    FSum([k \in 1..(Len(group1) * Len(group2)) |->
            LET x == group1[((k - 1) \div Len(group2)) + 1]
                y == group2[((k - 1) % Len(group2)) + 1]
            IN  IF FLt(y, x) THEN Num(1)
                ELSE IF x = y THEN <<1, 2>> ELSE Num(0)])

\* stats.mannwhitneyu(group1, group2, alternative='two-sided') for two
\* non-empty groups returns the U statistic and a p-value in [0, 1]; the
\* model lets the p-value be any of MWPValues.  With an empty group it
\* raises ValueError or returns (NaN, NaN), depending on the scipy release.
MWPValues == {<<1, 25>>, <<1, 2>>}

MannWhitneyOutcomes(group1, group2) ==
    IF Len(group1) = 0 \/ Len(group2) = 0
    THEN {[raised |-> "ValueError"],
          [raised |-> "", statistic |-> NaN, p_value |-> NaN]}
    ELSE {[raised |-> "", statistic |-> UStatistic(group1, group2), p_value |-> p] :
            p \in MWPValues}

\* The fold change with no pseudocount under the fraction bar.
Log2FoldChange_BareDenominator(group1_mean, group2_mean, pseudocount) ==
    [log2_of |-> FDiv(FAdd(group2_mean, pseudocount), group1_mean)]

\* np.log2 of a positive rational, kept as the rational it is the log of;
\* log2_fold_change is round(log2((mean2 + 1) / (mean1 + 1)), 4).
Log2FoldChange(group1_mean, group2_mean, pseudocount) ==
    [log2_of |-> FDiv(FAdd(group2_mean, pseudocount),
                      FAdd(group1_mean, pseudocount))]

\* The record appended to results for one scored feature.
FeatureRecord(feature, group1_values, group2_values, mw) ==
    [feature |-> feature,
     mean_group1 |-> Mean(group1_values),
     mean_group2 |-> Mean(group2_values),
     log2_fold_change |->
         Log2FoldChange(Mean(group1_values), Mean(group2_values), Num(1)),
     statistic |-> mw.statistic,
     p_value |-> mw.p_value]

\* Abundance tables: up to MaxFeatures features over the samples s1..s3.
CgColumns == SubSeq(SampleIds, 1, 3)

CgFeatureIds == <<"blaTEM", "tetM", "sul1", "ermB", "vanA">>

CgAbundances == {<<0, 1>>, <<1, 1>>}

AbundanceTables ==
    UNION {{[index |-> SubSeq(CgFeatureIds, 1, f), columns |-> CgColumns, values |-> v] :
               v \in [1..f -> [1..Len(CgColumns) -> CgAbundances]]} :
           f \in 0..MaxFeatures}

\* Labelings: a sample has one of the two group labels, another label, or
\* no entry.  The samples of a table are interchangeable, so s1 is in the
\* first group or carries another label, s2 is in the second group or has
\* no entry, and s3 is anything; s4, which is no column of the table, has a
\* group label or no entry.
NoEntry == "-"

Labelings ==
    {l \in [1..(Len(CgColumns) + 1) ->
                {NonMedical, MedicalInfluenced, OtherLabel, NoEntry}] :
        /\ l[1] \in {NonMedical, OtherLabel}
        /\ l[2] \in {MedicalInfluenced, NoEntry}
        /\ l[Len(CgColumns) + 1] # OtherLabel}

LabelSeries(l) ==
    LET keep == SelectSeq([i \in 1..Len(l) |-> i], LAMBDA i : l[i] # NoEntry)
    IN  [index |-> [k \in 1..Len(keep) |-> SampleIds[keep[k]]],
         values |-> [k \in 1..Len(keep) |-> l[keep[k]]]]

CgInit ==
    /\ pc = "cg_start"
    /\ \E t \in AbundanceTables, l \in Labelings :
           args = [abundance_df |-> t, group_labels |-> LabelSeries(l),
                   group1_name |-> NonMedical, group2_name |-> MedicalInfluenced]
    /\ locals = <<>>
    /\ ret = <<>>

\* Lines 326-329.  fdr_calls counts the calls of fdr_correction.
CgSelectGroups ==
    /\ pc = "cg_start"
    /\ locals' = [results |-> <<>>,
                  group1_samples |-> GroupSamples(args.group_labels, args.group1_name),
                  group2_samples |-> GroupSamples(args.group_labels, args.group2_name),
                  feature |-> 1,
                  fdr_calls |-> 0]
    /\ pc' = "cg_loop"
    /\ UNCHANGED <<args, ret>>

InLoop == pc = "cg_loop" /\ locals.feature <= Len(args.abundance_df.index)

\* Lines 332-333 raising KeyError.
CgLocRaises ==
    /\ InLoop
    /\ \/ LocRaises(args.abundance_df, locals.group1_samples)
       \/ LocRaises(args.abundance_df, locals.group2_samples)
    /\ ret' = [raised |-> "KeyError"]
    /\ pc' = "cg_done"
    /\ UNCHANGED <<args, locals>>

\* One pass of the loop body, lines 331-355, with its three ends: the
\* feature is skipped, the test raises, or a record is appended.
CgFeature ==
    /\ InLoop
    /\ ~LocRaises(args.abundance_df, locals.group1_samples)
    /\ ~LocRaises(args.abundance_df, locals.group2_samples)
    /\ LET i == locals.feature
           group1_values == LocValues(args.abundance_df, i, locals.group1_samples)
           group2_values == LocValues(args.abundance_df, i, locals.group2_samples)
       IN  IF BothGroupsZero(group1_values, group2_values)
           THEN /\ locals' = [locals EXCEPT !.feature = i + 1]
                /\ UNCHANGED <<pc, ret>>
           ELSE \E mw \in MannWhitneyOutcomes(group1_values, group2_values) :
                  IF mw.raised # ""
                  THEN /\ ret' = [raised |-> mw.raised]
                       /\ pc' = "cg_done"
                       /\ UNCHANGED locals
                  ELSE /\ locals' =
                            [locals EXCEPT
                               !.feature = i + 1,
                               !.results = Append(@,
                                   FeatureRecord(args.abundance_df.index[i],
                                       group1_values, group2_values, mw))]
                       /\ UNCHANGED <<pc, ret>>
    /\ UNCHANGED args

\* Lines 357-361: result_df = pd.DataFrame(results), corrected when it has
\* rows.  An empty results list gives a frame with no columns at all.
CgCorrect ==
    /\ pc = "cg_loop"
    /\ locals.feature > Len(args.abundance_df.index)
    /\ IF Len(locals.results) > 0
       THEN \E p \in SortOrders(Column(locals.results, "p_value")) :
              locals' = [fdr_calls |-> locals.fdr_calls + 1,
                         result_df |-> FdrCorrection(locals.results, Alpha, p)]
                        @@ locals
       ELSE locals' = [result_df |-> <<>>] @@ locals
    /\ pc' = "cg_sort"
    /\ UNCHANGED <<args, ret>>

\* The columns of a frame built from a list of records: none when the list
\* is empty.
HasColumn(df, c) == Len(df) > 0 /\ c \in DOMAIN df[1]

\* Line 363: sort_values("p_adjusted") raises KeyError when the frame has
\* no such column.
CgSort ==
    /\ pc = "cg_sort"
    /\ IF HasColumn(locals.result_df, "p_adjusted")
       THEN \E p \in SortOrders(Column(locals.result_df, "p_adjusted")) :
              ret' = [raised |-> "", table |-> Reorder(locals.result_df, p)]
       ELSE ret' = [raised |-> "KeyError"]
    /\ pc' = "cg_done"
    /\ UNCHANGED <<args, locals>>

CgNext == CgSelectGroups \/ CgLocRaises \/ CgFeature \/ CgCorrect \/ CgSort

SpecCompare == CgInit /\ [][CgNext]_vars

(***************************************************************************)
(* Calls of log2_fold_change on its own, beside those compare_groups       *)
(* makes.                                                                  *)
(***************************************************************************)
\* Group means: of non-negative values, or NaN for an empty group.
GroupMeans == {<<0, 1>>, <<1, 3>>, <<1, 2>>, <<1, 1>>, <<3, 2>>, <<2, 1>>, NaN}

\* pseudocount: float = 1.0, and other positive pseudocounts.
Pseudocounts == {<<1, 1>>, <<1, 2>>, <<2, 1>>}

FoldInit ==
    /\ pc = "fold_start"
    /\ \E m1 \in GroupMeans, m2 \in GroupMeans, pseudocount \in Pseudocounts :
           args = [group1_mean |-> m1, group2_mean |-> m2,
                   pseudocount |-> pseudocount]
    /\ locals = <<>>
    /\ ret = <<>>

FoldCall ==
    /\ pc = "fold_start"
    /\ ret' = Log2FoldChange(args.group1_mean, args.group2_mean, args.pseudocount)
    /\ pc' = "fold_done"
    /\ UNCHANGED <<args, locals>>

DiffInit == CgInit \/ FoldInit

DiffNext == CgNext \/ FoldCall

SpecDiff == DiffInit /\ [][DiffNext]_vars

(***************************************************************************)
(* AbundanceTable: normalize_by_total_reads, aggregate_by_drug_class and   *)
(* filter_low_abundance, on a table [index, columns, values] of features   *)
(* by samples.  total_reads and arg_to_class are dicts, given as functions *)
(* on their keys.                                                          *)
(***************************************************************************)
\* The normalisation without the scale factor.
Rpm_NoScale(value, reads, scale) == FDiv(value, reads)

\* normalized[sample] / total_reads[sample] * scale, for one value.
Rpm(value, reads, scale) == FMul(FDiv(value, reads), scale)

NormalizeByTotalReads(counts_df, total_reads, scale) ==
    [counts_df EXCEPT !.values =
        Tup([i \in 1..Len(counts_df.index) |->
            Tup([k \in 1..Len(counts_df.columns) |->
                IF counts_df.columns[k] \in DOMAIN total_reads
                THEN Rpm(counts_df.values[i][k],
                         Num(total_reads[counts_df.columns[k]]), scale)
                ELSE counts_df.values[i][k]])])]

\* The value Index.map gives a feature that is no key of the dict.
MapNaN == "NaN"

\* arg_df.index.map(arg_to_class)
IndexMap(index, arg_to_class) ==
    [i \in 1..Len(index) |->
        IF index[i] \in DOMAIN arg_to_class THEN arg_to_class[index[i]]
        ELSE MapNaN]

\* The class column left as Index.map gave it.
FillNaUnknown_Not(classes) == classes

\* .fillna("Unknown")
FillNaUnknown(classes) ==
    [i \in 1..Len(classes) |->
        IF classes[i] = MapNaN THEN "Unknown" ELSE classes[i]]

\* The drug classes of the model in the order groupby sorts its keys
\* (code points: "U" comes before every lower-case letter).
DrugClasses == <<"Unknown", "beta-lactam", "tetracycline">>

\* groupby("drug_class").sum(): one row per key in sorted order, rows with
\* a NaN key dropped, each row the per-sample sum of its group.
GroupBySum(arg_df, drug_class) ==
    LET keys == SelectSeq(DrugClasses,
                    LAMBDA c : \E i \in 1..Len(drug_class) : drug_class[i] = c)
        Members(c) == SelectSeq([i \in 1..Len(drug_class) |-> i],
                                LAMBDA i : drug_class[i] = c)
    IN  [index |-> keys,
         columns |-> arg_df.columns,
         values |->
            Tup([g \in 1..Len(keys) |->
                Tup([k \in 1..Len(arg_df.columns) |->
                    FSum([m \in 1..Len(Members(keys[g])) |->
                            arg_df.values[Members(keys[g])[m]][k]])])])]

AggregateByDrugClass(arg_df, arg_to_class) ==
    GroupBySum(arg_df, FillNaUnknown(IndexMap(arg_df.index, arg_to_class)))

\* (abundance_df > 0).sum(axis=1) / abundance_df.shape[1], for row i:
\* 0/0 = NaN when the table has no column.
Prevalence(abundance_df, i) ==
    FDiv(Num(Len(Positive(abundance_df.values[i]))),
         Num(Len(abundance_df.columns)))

\* The masks joined by "or".
KeepMask_Either(abundance_df, i, min_prevalence, min_abundance) ==
    \/ FLe(min_prevalence, Prevalence(abundance_df, i))
    \/ FLe(min_abundance, Mean(abundance_df.values[i]))

\* prevalence_mask & abundance_mask, for row i.
KeepMask(abundance_df, i, min_prevalence, min_abundance) ==
    /\ FLe(min_prevalence, Prevalence(abundance_df, i))
    /\ FLe(min_abundance, Mean(abundance_df.values[i]))

FilterLowAbundance(abundance_df, min_prevalence, min_abundance) ==
    LET keep == SelectSeq([i \in 1..Len(abundance_df.index) |-> i],
                    LAMBDA i : KeepMask(abundance_df, i,
                                        min_prevalence, min_abundance))
    IN  [index |-> [j \in 1..Len(keep) |-> abundance_df.index[keep[j]]],
         columns |-> abundance_df.columns,
         values |-> [j \in 1..Len(keep) |-> abundance_df.values[keep[j]]]]

\* Tables of up to MaxFeatures features over no, one or two samples.
TbColumns == SubSeq(SampleIds, 1, 2)

TbAbundances == {<<0, 1>>, <<1, 1>>, <<2, 1>>}

CountTables ==
    UNION {{[index |-> SubSeq(CgFeatureIds, 1, f),
             columns |-> SubSeq(TbColumns, 1, c),
             values |-> v] : v \in [1..f -> [1..c -> TbAbundances]]} :
           f \in 0..MaxFeatures, c \in 0..Len(TbColumns)}

\* total_reads dicts: any of the samples s1..s3 as keys, each with a
\* positive read total.
TotalReads ==
    UNION {[keys -> {1, 2}] : keys \in SUBSET {SampleIds[k] : k \in 1..3}}

\* scale: float = 1e6
Scale == <<1000000, 1>>

Scales == {Scale, <<1, 1>>}

\* arg_to_class dicts: any of the features as keys.
ArgToClass(index) ==
    UNION {[keys -> {DrugClasses[k] : k \in 1..Len(DrugClasses)}] :
              keys \in SUBSET Elems(index)}

\* min_prevalence: float = 0.1, min_abundance: float = 1.0
MinPrevalences == {<<0, 1>>, <<1, 10>>, <<1, 2>>, <<11, 10>>}

MinAbundances == {<<0, 1>>, <<1, 1>>}

TableInit ==
    /\ pc = "table_start"
    /\ \E t \in CountTables : args = [counts_df |-> t]
    /\ locals = <<>>
    /\ ret = <<>>

NormalizeCall ==
    /\ pc = "table_start"
    /\ \E total_reads \in TotalReads, scale \in Scales :
          /\ args' = [total_reads |-> total_reads, scale |-> scale] @@ args
          /\ ret' = NormalizeByTotalReads(args.counts_df, total_reads, scale)
    /\ pc' = "normalize_done"
    /\ UNCHANGED locals

AggregateCall ==
    /\ pc = "table_start"
    /\ \E arg_to_class \in ArgToClass(args.counts_df.index) :
          /\ args' = [arg_to_class |-> arg_to_class] @@ args
          /\ ret' = AggregateByDrugClass(args.counts_df, arg_to_class)
    /\ pc' = "aggregate_done"
    /\ UNCHANGED locals

FilterCall ==
    /\ pc = "table_start"
    /\ \E min_prevalence \in MinPrevalences, min_abundance \in MinAbundances :
          /\ args' = [min_prevalence |-> min_prevalence,
                      min_abundance |-> min_abundance] @@ args
          /\ ret' = FilterLowAbundance(args.counts_df, min_prevalence, min_abundance)
    /\ pc' = "filter_done"
    /\ UNCHANGED locals

TableNext == NormalizeCall \/ AggregateCall \/ FilterCall

SpecTable == TableInit /\ [][TableNext]_vars

(***************************************************************************)
(* EcologicalAnalysis.run_full_analysis                                    *)
(*                                                                         *)
(* args holds SCIPY_AVAILABLE and the two input files, each unreadable or  *)
(* the table read_csv gives.  locals holds self, the local variables, the  *)
(* output file as the run has left it (output_file, with the number of     *)
(* times it was opened for writing) and the stages entered so far.         *)
(***************************************************************************)
\* round(x, 4) of a non-negative rational.
Round4(x) ==
    IF IsNaN(x) THEN NaN
    ELSE Frac((x[1] * 20000 + x[2]) \div (2 * x[2]), 10000)

\* round(x, 4) of a float that is exact or kept as an expression.
Round4Float(x) ==
    IF "exact" \in DOMAIN x THEN Exact(Round4(x.exact)) ELSE [round4_of |-> x]

\* AlphaDiversity.calculate_all
CalculateAll(counts) ==
    [observed_richness |-> ObservedRichness(counts),
     shannon_index |-> Round4Float(ShannonIndex(counts)),
     simpson_index |-> Round4(SimpsonIndex(counts)),
     chao1_estimator |-> Round4(Chao1Estimator(counts)),
     pielou_evenness |-> Round4Float(PielouEvenness(counts))]

\* The five metrics of a vector and the calculate_all mapping of it.
AllMetrics(counts) ==
    [observed_richness |-> ObservedRichness(counts),
     shannon_index |-> ShannonIndex(counts),
     simpson_index |-> SimpsonIndex(counts),
     chao1_estimator |-> Chao1Estimator(counts),
     pielou_evenness |-> PielouEvenness(counts),
     calculate_all |-> CalculateAll(counts)]

\* A caller computes the metrics of a vector, then of the vector with a
\* zero entry inserted or removed or with two entries exchanged, again and
\* again.  args holds the current vector, locals the first vector and its
\* metrics, ret the metrics of the current vector.
EditValues == {<<0, 1>>, <<1, 1>>, <<3, 2>>, <<2, 1>>}

EditInit ==
    /\ pc = "edit_first"
    /\ \E c \in {v \in CountVectors : \A i \in 1..Len(v) : v[i] \in EditValues} :
          /\ args = [counts |-> c]
          /\ locals = [counts |-> c, metrics |-> AllMetrics(c)]
          /\ ret = AllMetrics(c)

Recompute(counts) ==
    /\ args' = [counts |-> counts]
    /\ ret' = AllMetrics(counts)
    /\ pc' = "edit_again"
    /\ UNCHANGED locals

InsertZero ==
    /\ pc \in {"edit_first", "edit_again"}
    /\ Len(args.counts) < MaxCounts
    /\ \E i \in 0..Len(args.counts) :
          Recompute(SubSeq(args.counts, 1, i) \o <<Num(0)>>
                    \o SubSeq(args.counts, i + 1, Len(args.counts)))

RemoveZero ==
    /\ pc \in {"edit_first", "edit_again"}
    /\ \E i \in 1..Len(args.counts) :
          /\ args.counts[i] = Num(0)
          /\ Recompute(SubSeq(args.counts, 1, i - 1)
                       \o SubSeq(args.counts, i + 1, Len(args.counts)))

ExchangeEntries ==
    /\ pc \in {"edit_first", "edit_again"}
    /\ \E i, j \in 1..Len(args.counts) :
          /\ i < j
          /\ Recompute([args.counts EXCEPT ![i] = args.counts[j],
                                           ![j] = args.counts[i]])

EditNext == InsertZero \/ RemoveZero \/ ExchangeEntries

SpecEdit == EditInit /\ [][EditNext]_vars

\* abundance_df[sample].values for the k-th sample.
SampleColumn(abundance_df, k) ==
    Tup([i \in 1..Len(abundance_df.index) |-> abundance_df.values[i][k]])

\* abundance_df.T.values
Transposed(abundance_df) ==
    Tup([k \in 1..Len(abundance_df.columns) |-> SampleColumn(abundance_df, k)])

HasNaN(m) == \E i \in 1..Len(m) : \E j \in 1..Len(m[i]) : IsNaN(m[i][j])

\* The ends of the beta stage, lines 494-506.  distance_matrix raises
\* ValueError for no sample at all (squareform gives a 1 x 1 matrix for an
\* index of length 0); pcoa with its default n_components = 2 raises
\* ValueError for fewer than two samples; np.linalg.eigh on a matrix with
\* NaN raises LinAlgError or returns NaN, depending on the LAPACK build.
\* The coordinates and explained variance are kept as the call they are
\* the result of.
BetaStageOutcomes(abundance_df) ==
    LET n == Len(abundance_df.columns)
        dist_matrix == DistanceMatrix(Transposed(abundance_df), abundance_df.columns)
        done == [raised |-> "",
                 beta_diversity |->
                    [distance_matrix |-> dist_matrix,
                     pcoa |-> [pcoa_of |-> dist_matrix, n_components |-> 2]]]
    IN  IF n = 0 THEN {[raised |-> "ValueError"]}
        ELSE IF Len(Take(abundance_df.columns, 2)) # Len(PCColumns(2))
        THEN {[raised |-> "ValueError"]}
        ELSE IF HasNaN(dist_matrix.values)
        THEN {[raised |-> "LinAlgError"], done}
        ELSE {done}

\* The ends of the loop of compare_groups from the feature at row i on, with
\* the records appended so far: an exception or the finished list.
RECURSIVE ScoreFeaturesFrom(_, _, _, _, _)
ScoreFeaturesFrom(abundance_df, group1_samples, group2_samples, i, results) ==
    IF i > Len(abundance_df.index) THEN {[raised |-> "", results |-> results]}
    ELSE IF \/ LocRaises(abundance_df, group1_samples)
            \/ LocRaises(abundance_df, group2_samples)
    THEN {[raised |-> "KeyError"]}
    ELSE LET group1_values == LocValues(abundance_df, i, group1_samples)
             group2_values == LocValues(abundance_df, i, group2_samples)
         IN  IF BothGroupsZero(group1_values, group2_values)
             THEN ScoreFeaturesFrom(abundance_df, group1_samples,
                                    group2_samples, i + 1, results)
             ELSE UNION {IF mw.raised # "" THEN {[raised |-> mw.raised]}
                         ELSE ScoreFeaturesFrom(abundance_df, group1_samples,
                                  group2_samples, i + 1,
                                  Append(results,
                                      FeatureRecord(abundance_df.index[i],
                                          group1_values, group2_values, mw))) :
                         mw \in MannWhitneyOutcomes(group1_values, group2_values)}

\* compare_groups leaving out the labelled samples that are no column.
CompareGroupsOutcomes_IgnoreMissing(abundance_df, group_labels) ==
    LET Present(samples) ==
            SelectSeq(samples, LAMBDA x : x \in Elems(abundance_df.columns))
    IN  UNION {IF scored.raised # "" THEN {scored}
               ELSE IF Len(scored.results) = 0 THEN {[raised |-> "KeyError"]}
               ELSE UNION {{[raised |-> "", table |-> Reorder(corrected, q)] :
                               q \in SortOrders(Column(corrected, "p_adjusted"))} :
                           corrected \in {FdrCorrection(scored.results, Alpha, p) :
                                            p \in SortOrders(Column(scored.results, "p_value"))}} :
               scored \in ScoreFeaturesFrom(abundance_df,
                             Present(GroupSamples(group_labels, NonMedical)),
                             Present(GroupSamples(group_labels, MedicalInfluenced)),
                             1, <<>>)}

\* The ends of a whole call of compare_groups(abundance_df, group_labels)
\* with the default group names: an exception or the returned table.
CompareGroupsOutcomes(abundance_df, group_labels) ==
    UNION {IF scored.raised # "" THEN {scored}
           ELSE IF Len(scored.results) = 0 THEN {[raised |-> "KeyError"]}
           ELSE UNION {{[raised |-> "", table |-> Reorder(corrected, q)] :
                           q \in SortOrders(Column(corrected, "p_adjusted"))} :
                       corrected \in {FdrCorrection(scored.results, Alpha, p) :
                                        p \in SortOrders(Column(scored.results, "p_value"))}} :
           scored \in ScoreFeaturesFrom(abundance_df,
                         GroupSamples(group_labels, NonMedical),
                         GroupSamples(group_labels, MedicalInfluenced),
                         1, <<>>)}

\* A file pd.read_csv cannot read, and an output file never written.
Unreadable == [readable |-> FALSE]

Readable(table) == [readable |-> TRUE, table |-> table]

NoFile == [written |-> FALSE]

\* pd.read_csv with the exception swallowed and an empty table in its place.
ReadCsv_Lenient(file) ==
    [raised |-> "",
     df |-> IF file.readable THEN file.table
            ELSE [index |-> <<>>, columns |-> <<>>, values |-> <<>>,
                  sample_type |-> [index |-> <<>>, values |-> <<>>]]]

\* pd.read_csv(file, sep='\t', index_col=0)
ReadCsv(file) ==
    IF ~file.readable THEN [raised |-> "FileNotFoundError"]
    ELSE [raised |-> "", df |-> file.table]

\* The stages in the order of the statements of run_full_analysis, save
\* moved before the differential abundance stage.
StageAfter_SaveBeforeDiff(stage) ==
    CASE stage = "run_load" -> "run_alpha"
      [] stage = "run_alpha" -> "run_beta"
      [] stage = "run_beta" -> "run_save"
      [] stage = "run_save" -> "run_diff"
      [] stage = "run_diff" -> "run_done"

\* The stages in the order of the statements of run_full_analysis.
StageAfter(stage) ==
    CASE stage = "run_load" -> "run_alpha"
      [] stage = "run_alpha" -> "run_beta"
      [] stage = "run_beta" -> "run_diff"
      [] stage = "run_diff" -> "run_save"
      [] stage = "run_save" -> "run_done"

\* The differential abundance stage run whether or not scipy was imported.
RunsDiffAbundance_AnyScipy(self, metadata_df) ==
    "sample_type" \in Elems(metadata_df.columns)

\* self.diff_abundance and "sample_type" in metadata_df.columns
RunsDiffAbundance(self, metadata_df) ==
    self.diff_abundance /\ "sample_type" \in Elems(metadata_df.columns)

\* Abundance files: unreadable, or a table of up to MaxFeatures features
\* over no to three samples.
AbundanceFiles ==
    {Unreadable} \cup
    UNION {{Readable([index |-> SubSeq(CgFeatureIds, 1, f),
                      columns |-> SubSeq(CgColumns, 1, c),
                      values |-> v]) : v \in [1..f -> [1..c -> CgAbundances]]} :
           f \in 0..MaxFeatures, c \in 0..Len(CgColumns)}

\* Metadata files: unreadable, a table without the sample_type column, or
\* a table with it; sample_type is the Series of its labels, s1 being in
\* the first group.
MetadataFiles ==
    {Unreadable} \cup
    {Readable([columns |-> <<"location">>, sample_type |-> LabelSeries(l)]) :
        l \in {[k \in 1..(Len(CgColumns) + 1) |-> NoEntry]}} \cup
    {Readable([columns |-> <<"sample_type", "location">>,
               sample_type |-> LabelSeries(l)]) :
        l \in {x \in Labelings : x[1] = NonMedical}}

\* EcologicalAnalysis(), lines 449-456, and the arguments of the run.
RunInit ==
    /\ pc = "run_load"
    /\ \E scipy \in BOOLEAN, a \in AbundanceFiles, m \in MetadataFiles :
           /\ args = [SCIPY_AVAILABLE |-> scipy,
                      abundance_file |-> a, metadata_file |-> m]
           /\ locals = [self |-> [beta |-> scipy, diff_abundance |-> scipy],
                        output_file |-> NoFile, opened |-> 0, stages |-> <<>>]
    /\ ret = <<>>

Raise(exception, stage) ==
    /\ ret' = [raised |-> exception]
    /\ pc' = "run_raised"
    /\ locals' = [locals EXCEPT !.stages = Append(@, stage)]

\* Lines 475-483.
RunLoad ==
    /\ pc = "run_load"
    /\ LET abundance == ReadCsv(args.abundance_file)
           metadata == ReadCsv(args.metadata_file)
       IN  IF abundance.raised # "" THEN Raise(abundance.raised, "load")
           ELSE IF metadata.raised # "" THEN Raise(metadata.raised, "load")
           ELSE /\ locals' =
                     [abundance_df |-> abundance.df,
                      metadata_df |-> metadata.df,
                      results |->
                         [samples_analyzed |-> Len(abundance.df.columns),
                          features_analyzed |-> Len(abundance.df.index)]]
                     @@ [locals EXCEPT !.stages = Append(@, "load")]
                /\ pc' = StageAfter("run_load")
                /\ UNCHANGED ret
    /\ UNCHANGED args

\* Lines 485-492.
RunAlpha ==
    /\ pc = "run_alpha"
    /\ LET abundance_df == locals.abundance_df
           alpha_results ==
              [k \in 1..Len(abundance_df.columns) |->
                  [sample |-> abundance_df.columns[k],
                   report |-> CalculateAll(SampleColumn(abundance_df, k))]]
       IN  locals' = [locals EXCEPT
                        !.results = [alpha_diversity |-> alpha_results] @@ @,
                        !.stages = Append(@, "alpha")]
    /\ pc' = StageAfter("run_alpha")
    /\ UNCHANGED <<args, ret>>

\* Lines 494-508.
RunBeta ==
    /\ pc = "run_beta"
    /\ IF locals.self.beta
       THEN \E beta \in BetaStageOutcomes(locals.abundance_df) :
              IF beta.raised # "" THEN Raise(beta.raised, "beta")
              ELSE /\ locals' = [locals EXCEPT
                          !.results = [beta_diversity |-> beta.beta_diversity] @@ @,
                          !.stages = Append(@, "beta")]
                   /\ pc' = StageAfter("run_beta")
                   /\ UNCHANGED ret
       ELSE /\ pc' = StageAfter("run_beta")
            /\ UNCHANGED <<locals, ret>>
    /\ UNCHANGED args

\* Lines 510-518.
RunDiff ==
    /\ pc = "run_diff"
    /\ IF RunsDiffAbundance(locals.self, locals.metadata_df)
       THEN \E diff \in CompareGroupsOutcomes(locals.abundance_df,
                                              locals.metadata_df.sample_type) :
              IF diff.raised # "" THEN Raise(diff.raised, "diff")
              ELSE /\ locals' = [locals EXCEPT
                          !.results = [differential_abundance |-> diff.table] @@ @,
                          !.stages = Append(@, "diff")]
                   /\ pc' = StageAfter("run_diff")
                   /\ UNCHANGED ret
       ELSE /\ pc' = StageAfter("run_diff")
            /\ UNCHANGED <<locals, ret>>
    /\ UNCHANGED args

\* Lines 520-528: the file is opened for writing, the results are dumped
\* into it and returned.
RunSave ==
    /\ pc = "run_save"
    /\ locals' = [locals EXCEPT !.output_file = [written |-> TRUE,
                                                 content |-> locals.results],
                                !.opened = @ + 1,
                                !.stages = Append(@, "save")]
    /\ pc' = StageAfter("run_save")
    /\ ret' = IF StageAfter("run_save") = "run_done"
              THEN [raised |-> "", results |-> locals.results] ELSE ret
    /\ UNCHANGED args

RunNext == RunLoad \/ RunAlpha \/ RunBeta \/ RunDiff \/ RunSave

SpecRun == RunInit /\ [][RunNext]_vars

(***************************************************************************)
(* The routines called in a row by a caller that keeps its abundance table *)
(* and its result table.  Objects live in a heap (a sequence of values; a  *)
(* reference is a position in it), so that a statement either creates an   *)
(* object or writes into the one a name refers to.  args holds the         *)
(* caller's two references and the values the objects had at first;        *)
(* locals holds the heap and the number of calls made; ret is what the     *)
(* last call returned.  What a routine created is dropped when it returns. *)
(***************************************************************************)
\* A new object with the given value.
Alloc(heap, value) == [heap |-> Append(heap, value), ref |-> Len(heap) + 1]

\* A copy that is the object itself.
DataFrameCopy_Alias(heap, ref) == [heap |-> heap, ref |-> ref]

\* df.copy()
DataFrameCopy(heap, ref) == Alloc(heap, heap[ref])

\* Assignment to a column of the DataFrame a name refers to.
SetInPlace(heap, ref, value) == [heap EXCEPT ![ref] = value]

\* normalize_by_total_reads: the copy of line 401, the columns assigned in
\* it by lines 403-407, the copy returned.
OwnedNormalize(heap, counts_df, total_reads, scale) ==
    LET normalized == DataFrameCopy(heap, counts_df)
    IN  [heap |-> SetInPlace(normalized.heap, normalized.ref,
                     NormalizeByTotalReads(normalized.heap[normalized.ref],
                                           total_reads, scale)),
         ref |-> normalized.ref]

\* aggregate_by_drug_class: the copy of line 415, the drug_class column
\* assigned in it by line 416, the new table of groupby(...).sum().
OwnedAggregate(heap, arg_df, arg_to_class) ==
    LET copied == DataFrameCopy(heap, arg_df)
        with_class ==
            SetInPlace(copied.heap, copied.ref,
                [drug_class |->
                    FillNaUnknown(IndexMap(copied.heap[copied.ref].index,
                                           arg_to_class))]
                @@ copied.heap[copied.ref])
    IN  Alloc(with_class,
              GroupBySum(with_class[copied.ref], with_class[copied.ref].drug_class))

\* fdr_correction: the new table of sort_values(...).reset_index(drop=True),
\* line 370, and the columns assigned in it by lines 373-381.
OwnedFdrCorrection(heap, result_df, alpha, p) ==
    LET sorted == Alloc(heap, Reorder(heap[result_df], p))
    IN  [heap |-> SetInPlace(sorted.heap, sorted.ref,
                     FdrCorrection(sorted.heap[sorted.ref], alpha,
                                   [i \in 1..Len(heap[result_df]) |-> i])),
         ref |-> sorted.ref]

\* The objects a caller still holds when a routine has returned.
Kept(heap) == SubSeq(heap, 1, 2)

\* The tables a caller holds: an abundance table of up to two features over
\* s1 and s2, and a table of up to two raw p-values.
OwnedAbundanceTables ==
    {t \in CountTables :
        /\ t.columns = TbColumns
        /\ Len(t.index) <= Len(TbColumns)
        /\ \A i \in 1..Len(t.index), k \in 1..Len(t.columns) :
              t.values[i][k] \in CgAbundances}

OwnedResultTables ==
    {Numbered(t) : t \in UNION {[1..n -> [feature : {0}, p_value : MWPValues]] :
                                    n \in 0..Len(TbColumns)}}

\* The labels the caller passes to compare_groups.
OwnedLabels ==
    [index |-> TbColumns, values |-> <<NonMedical, MedicalInfluenced>>]

OwnerInit ==
    /\ pc = "owner"
    /\ \E t \in OwnedAbundanceTables, r \in OwnedResultTables :
          /\ args = [abundance_df |-> 1, result_df |-> 2, before |-> <<t, r>>]
          /\ locals = [heap |-> <<t, r>>, calls |-> 0, last |-> ""]
    /\ ret = <<>>

\* A call that has returned value from the heap it left.
Returned(routine, heap, value) ==
    /\ locals' = [heap |-> Kept(heap), calls |-> locals.calls + 1,
                  last |-> routine]
    /\ ret' = value
    /\ UNCHANGED <<pc, args>>

CanCall == pc = "owner" /\ locals.calls < MaxCalls

\* One of the alpha-diversity functions on the values of a sample:
\* np.array(counts, dtype=float) is a new array.
OwnerAlpha ==
    /\ CanCall
    /\ \E k \in 1..Len(locals.heap[args.abundance_df].columns) :
         \E counts \in {Alloc(locals.heap,
                            SampleColumn(locals.heap[args.abundance_df], k))} :
         \E value \in {Exact(Num(ObservedRichness(counts.heap[counts.ref]))),
                        ShannonIndex(counts.heap[counts.ref]),
                        Exact(SimpsonIndex(counts.heap[counts.ref])),
                        Exact(Chao1Estimator(counts.heap[counts.ref])),
                        PielouEvenness(counts.heap[counts.ref])} :
             Returned("alpha", counts.heap, value)

\* distance_matrix, then pcoa on its result: both only read their argument.
OwnerBeta ==
    /\ CanCall
    /\ \E beta \in BetaStageOutcomes(locals.heap[args.abundance_df]) :
          Returned("distance_matrix, pcoa", locals.heap, beta)

\* compare_groups only reads its arguments; the table it corrects is its own.
OwnerCompare ==
    /\ CanCall
    /\ \E diff \in CompareGroupsOutcomes(locals.heap[args.abundance_df], OwnedLabels) :
          Returned("compare_groups", locals.heap, diff)

OwnerFdr ==
    /\ CanCall
    /\ \E p \in SortOrders(Column(locals.heap[args.result_df], "p_value")) :
         \E done \in {OwnedFdrCorrection(locals.heap, args.result_df, Alpha, p)} :
             Returned("fdr_correction", done.heap, done.heap[done.ref])

OwnerNormalize ==
    /\ CanCall
    /\ \E total_reads \in {t \in TotalReads : "s1" \in DOMAIN t /\ t["s1"] = 2} :
         \E done \in {OwnedNormalize(locals.heap, args.abundance_df,
                                      total_reads, Scale)} :
             Returned("normalize_by_total_reads", done.heap, done.heap[done.ref])

OwnerAggregate ==
    /\ CanCall
    /\ \E arg_to_class \in ArgToClass(Take(locals.heap[args.abundance_df].index, 1)) :
         \E done \in {OwnedAggregate(locals.heap, args.abundance_df, arg_to_class)} :
             Returned("aggregate_by_drug_class", done.heap, done.heap[done.ref])

\* filter_low_abundance: .loc[mask] is a new table.
OwnerFilter ==
    /\ CanCall
    /\ \E min_prevalence \in {<<0, 1>>, <<1, 10>>}, min_abundance \in MinAbundances :
         \E done \in {Alloc(locals.heap,
                           FilterLowAbundance(locals.heap[args.abundance_df],
                                              min_prevalence, min_abundance))} :
             Returned("filter_low_abundance", done.heap, done.heap[done.ref])

OwnerNext ==
    \/ OwnerAlpha \/ OwnerBeta \/ OwnerCompare \/ OwnerFdr
    \/ OwnerNormalize \/ OwnerAggregate \/ OwnerFilter

SpecOwner == OwnerInit /\ [][OwnerNext]_vars

(***************************************************************************)
(* AMRPipeline.process_sample.  args holds the arguments, which tools are  *)
(* installed and whether the R2 input exists; locals holds the files on    *)
(* disk (a trimmed file may be left from an earlier run), the results      *)
(* dictionary and the method calls made so far; ret is the dictionary      *)
(* returned.  A tool that runs ends with exit status 0 or not.             *)
(***************************************************************************)
\* results["arg_results"] = None
None == [parsed |-> FALSE]

\* run_fastqc, run_fastp and run_rgi_bwt return False when their tool is
\* not installed, and returncode == 0 otherwise.
ToolResults(installed) == IF installed THEN {TRUE, FALSE} ELSE {FALSE}

\* The trimmed files after run_fastp: untouched when fastp is not
\* installed; written when fastp ends with status 0, R2 only for a
\* paired-end call whose R2 input exists; after a failed fastp the files
\* are as before or present.
DiskAfterFastp(disk, installed, passed, paired) ==
    IF ~installed THEN {disk}
    ELSE IF passed
    THEN {[disk EXCEPT !.trimmed_r1 = TRUE, !.trimmed_r2 = paired \/ @]}
    ELSE {disk, [disk EXCEPT !.trimmed_r1 = TRUE]}

\* parse_rgi_results returns a dictionary whether or not the gene mapping
\* file exists or can be read.
ParseRgiResults(sample_id, gene_mapping) ==
    {[parsed |-> TRUE, sample |-> sample_id, arg_counts |-> n] :
        n \in IF gene_mapping THEN {0, 1} ELSE {0}}

\* The annotation run when the trimming step of this run passed.
ShouldAnnotate_WhenTrimmed(results, disk) == results.trimming_passed

\* trimmed_r1.exists()
ShouldAnnotate(results, disk) == disk.trimmed_r1

ProcessInit ==
    /\ pc = "ps_start"
    /\ \E tools \in [{"fastqc", "fastp", "rgi"} -> BOOLEAN],
          r2_given \in BOOLEAN, r2_exists \in BOOLEAN,
          disk \in [trimmed_r1 : BOOLEAN, trimmed_r2 : BOOLEAN,
                    gene_mapping : BOOLEAN] :
          /\ r2_exists => r2_given
          /\ args = [sample_id |-> "S1", r2_path |-> r2_given,
                     r2_exists |-> r2_exists, tools |-> tools]
          /\ locals = [disk |-> disk, calls |-> <<>>]
    /\ ret = <<>>

\* Lines 351-357.
ProcessBegin ==
    /\ pc = "ps_start"
    /\ locals' = [results |-> [sample_id |-> args.sample_id,
                               qc_passed |-> FALSE,
                               trimming_passed |-> FALSE,
                               annotation_passed |-> FALSE,
                               arg_results |-> None]] @@ locals
    /\ pc' = "ps_qc"
    /\ UNCHANGED <<args, ret>>

\* Lines 359-363: the result for R2 is not kept.
ProcessQc ==
    /\ pc = "ps_qc"
    /\ \E passed \in ToolResults(args.tools["fastqc"]) :
          locals' = [locals EXCEPT
                       !.results.qc_passed = passed,
                       !.calls = @ \o (IF args.r2_path
                                       THEN <<"run_fastqc", "run_fastqc">>
                                       ELSE <<"run_fastqc">>)]
    /\ pc' = "ps_trim"
    /\ UNCHANGED <<args, ret>>

\* Lines 365-367.
ProcessTrim ==
    /\ pc = "ps_trim"
    /\ \E passed \in ToolResults(args.tools["fastp"]) :
         \E disk \in DiskAfterFastp(locals.disk, args.tools["fastp"], passed,
                                     args.r2_path /\ args.r2_exists) :
          locals' = [locals EXCEPT
                       !.results.trimming_passed = passed,
                       !.disk = disk,
                       !.calls = Append(@, "run_fastp")]
    /\ pc' = "ps_annotate"
    /\ UNCHANGED <<args, ret>>

\* Lines 369-387: rgi ending with status 0 has written the gene mapping
\* file.
ProcessAnnotate ==
    /\ pc = "ps_annotate"
    /\ IF ShouldAnnotate(locals.results, locals.disk)
       THEN \E passed \in ToolResults(args.tools["rgi"]) :
             \E gene_mapping \in {passed \/ locals.disk.gene_mapping} :
             \E parsed \in ParseRgiResults(args.sample_id, gene_mapping) :
               /\ locals' = [locals EXCEPT
                     !.results.annotation_passed = passed,
                     !.results.arg_results = parsed,
                     !.disk.gene_mapping = gene_mapping,
                     !.calls = @ \o <<"run_rgi_bwt", "parse_rgi_results">>]
               /\ ret' = locals'.results
       ELSE /\ ret' = locals.results
            /\ UNCHANGED locals
    /\ pc' = "ps_done"
    /\ UNCHANGED args

ProcessNext == ProcessBegin \/ ProcessQc \/ ProcessTrim \/ ProcessAnnotate

SpecProcess == ProcessInit /\ [][ProcessNext]_vars

(***************************************************************************)
(*                              THE CLAIMS                                 *)
(***************************************************************************)
FdrReturned == pc \in {"fdr_once", "fdr_twice"}

\* C1: after fdr_correction on raw p-values in [0, 1] the adjusted p-values
\* are non-decreasing in the raw p-value: for any two rows a and b of the
\* returned table, p_value(a) <= p_value(b) implies
\* p_adjusted(a) <= p_adjusted(b).
C1_AdjustedMonotone ==
    FdrReturned =>
        \A a, b \in 1..Len(ret) :
            FLe(ret[a].p_value, ret[b].p_value)
                => FLe(ret[a].p_adjusted, ret[b].p_adjusted)

\* A returned table with two different raw p-values in which the backward
\* scan lowered a candidate: some row's adjusted p-value is below its own
\* clipped p * n / rank.
C1_Witness ==
    /\ pc = "fdr_once"
    /\ \E a, b \in 1..Len(ret) : FLt(ret[a].p_value, ret[b].p_value)
    /\ \E i \in 1..Len(ret) :
           FLt(ret[i].p_adjusted, BHCandidate(ret[i].p_value, Len(ret), i))

SameFlags(t1, t2) ==
    \A i \in 1..Len(t1), j \in 1..Len(t2) :
        t1[i].feature = t2[j].feature => t1[i].significant = t2[j].significant

\* C2 as claimed: a second fdr_correction, on the adjusted p-values of the
\* first with alpha unchanged, gives every feature the flag the first gave.
C2_SameFlagsOnRerun == pc = "fdr_twice" => SameFlags(locals.first, ret)

\* C2 as amended: a second fdr_correction, on the adjusted p-values of the
\* first with alpha unchanged, never raises a flag and never lowers an
\* adjusted p-value: a feature significant after the second run was
\* significant after the first, and its second adjusted p-value is at least
\* its first.
C2_RerunOnlyClearsFlags ==
    pc = "fdr_twice" =>
        \A i \in 1..Len(locals.first), j \in 1..Len(ret) :
            locals.first[i].feature = ret[j].feature =>
                /\ ret[j].significant => locals.first[i].significant
                /\ FLe(locals.first[i].p_adjusted, ret[j].p_adjusted)

\* A second run that kept one feature's flag and cleared another's.
C2_Witness ==
    /\ pc = "fdr_twice"
    /\ \E j \in 1..Len(ret) : ret[j].significant
    /\ \E i \in 1..Len(locals.first), j \in 1..Len(ret) :
           /\ locals.first[i].feature = ret[j].feature
           /\ locals.first[i].significant
           /\ ~ret[j].significant

\* C10 as claimed: for every vector of non-negative values, integer or
\* fractional, simpson_index returns a value in [0, 1], and returns 0
\* whenever the total N is at most 1.
C10_SimpsonInUnitInterval ==
    pc = "simpson_done" =>
        /\ FLe(Num(0), ret) /\ FLe(ret, Num(1))
        /\ FLe(FSum(args.counts), Num(1)) => ret = Num(0)

\* C8 as claimed: bray_curtis_distance(x, x) = 0 for every non-negative
\* vector x, the all-zero vector included.
C8_BrayCurtisSelfZero ==
    (pc = "bray_curtis_done" /\ locals.sample1 = locals.sample2)
        => ret = Num(0)

InUnitInterval(x) == FLe(Num(0), x) /\ FLe(x, Num(1))

\* C9 as claimed: for every non-negative samples x features matrix,
\* distance_matrix with metric braycurtis returns a square matrix indexed
\* by sample id on both axes, symmetric, zero on the diagonal, with every
\* entry a number in [0, 1].
C9_DistanceMatrixWellFormed ==
    pc = "distance_matrix_done" =>
        LET m == Len(args.sample_ids)
        IN  /\ ret.index = args.sample_ids
            /\ ret.columns = args.sample_ids
            /\ Len(ret.values) = m
            /\ \A i \in 1..m :
                   /\ Len(ret.values[i]) = m
                   /\ ret.values[i][i] = Num(0)
                   /\ \A j \in 1..m :
                          /\ ret.values[i][j] = ret.values[j][i]
                          /\ InUnitInterval(ret.values[i][j])

PcoaReturned == pc = "pcoa_done" /\ ret.raised = ""

\* C6 as claimed: in pcoa the explained variance of each retained axis is
\* its eigenvalue divided by the sum of max(eigenvalue, 0) over ALL the
\* eigenvalues of the double-centered matrix, not only the retained ones;
\* when that total is zero the raw eigenvalues are returned.
C6_ExplainedVarianceOverAll ==
    PcoaReturned =>
        LET total == FSum(Maximum0(locals.eigh_eigenvalues))
        IN  \A i \in 1..Len(ret.explained_variance) :
                ret.explained_variance[i] =
                    IF FLt(Num(0), total)
                    THEN FDiv(locals.eigenvalues[i], total)
                    ELSE locals.eigenvalues[i]

\* C7 as claimed: for every square distance matrix over n >= 1 samples and
\* every n_components >= 1, n_components > n included, pcoa returns without
\* error a coordinate table indexed by the sample ids with exactly the
\* columns PC1..PCn_components and an explained-variance vector of length
\* n_components.
C7_PcoaShape ==
    pc = "pcoa_done" =>
        /\ ret.raised = ""
        /\ ret.coord_df.index = args.distance_matrix.index
        /\ ret.coord_df.columns = PCColumns(args.n_components)
        /\ Len(ret.coord_df.values) = args.n_components
        /\ Len(ret.explained_variance) = args.n_components

(***************************************************************************)
(* compare_groups: what the claims speak of.                               *)
(***************************************************************************)
CgReturned == pc = "cg_done" /\ ret.raised = ""

\* The columns of abundance_df whose sample carries the label name.
GroupColumns(name) ==
    {k \in 1..Len(args.abundance_df.columns) :
        \E j \in 1..Len(args.group_labels.index) :
            /\ args.group_labels.index[j] = args.abundance_df.columns[k]
            /\ args.group_labels.values[j] = name}

AllZeroInBothGroups(i) ==
    \A k \in GroupColumns(args.group1_name) \cup GroupColumns(args.group2_name) :
        args.abundance_df.values[i][k] = Num(0)

RetainedFeatures ==
    {args.abundance_df.index[i] : i \in {j \in 1..Len(args.abundance_df.index) :
                                            ~AllZeroInBothGroups(j)}}

\* C3: whenever compare_groups returns a table, its rows are exactly the
\* features that are not all-zero in both groups, one row each: the number
\* of rows is the number of features minus the number of features that are
\* zero throughout both groups.
C3_OmitsExactlyAllZero ==
    CgReturned =>
        /\ {ret.table[i].feature : i \in 1..Len(ret.table)} = RetainedFeatures
        /\ Len(ret.table) = Cardinality(RetainedFeatures)
        /\ Len(ret.table) =
              Len(args.abundance_df.index)
              - Cardinality({i \in 1..Len(args.abundance_df.index) :
                               AllZeroInBothGroups(i)})

\* A table returned with one feature kept, tested on two non-empty groups,
\* and another omitted.
C3_Witness ==
    /\ CgReturned
    /\ Len(ret.table) > 0
    /\ ~IsNaN(ret.table[1].p_value)
    /\ Len(ret.table) < Len(args.abundance_df.index)

\* The Benjamini-Hochberg value of the raw p-value p among the raw p-values
\* ps when nTests tests are corrected for: the least of min(1, q * nTests /
\* rank(q)) over the q in ps that are at least p, rank(q) being the number
\* of values in ps that are at most q.
StepUpValue(ps, p, nTests) ==
    IF IsNaN(p) THEN NaN
    ELSE LET Rank(q) == Cardinality({j \in 1..Len(ps) : FLe(ps[j], q)})
             cands == {ClipUpper1(FDiv(FMul(ps[j], Num(nTests)), Num(Rank(ps[j])))) :
                          j \in {k \in 1..Len(ps) : FLe(p, ps[k])}}
         IN  CHOOSE x \in cands : \A y \in cands : FLe(x, y)

C5_EmptyResultWithoutRaising ==
    (/\ pc = "cg_done"
     /\ Elems(args.group_labels.index) \subseteq Elems(args.abundance_df.columns)
     /\ RetainedFeatures = {}) =>
        /\ ret.raised = ""
        /\ ret.table = <<>>

(***************************************************************************)
(* The alpha-diversity functions on degenerate vectors.                    *)
(***************************************************************************)
\* C11: on a vector with no positive entry (empty, or all zero) shannon_index,
\* simpson_index, chao1_estimator, observed_richness and pielou_evenness
\* each return 0, and pielou_evenness returns 0 whenever at most one entry
\* is positive.
C11_ZeroOnDegenerate ==
    /\ (Positive(args.counts) = <<>> /\ pc = "shannon_done") => ret = Exact(Num(0))
    /\ (Positive(args.counts) = <<>> /\ pc = "simpson_done") => ret = Num(0)
    /\ (Positive(args.counts) = <<>> /\ pc = "chao1_done") => ret = Num(0)
    /\ (Positive(args.counts) = <<>> /\ pc = "richness_done") => ret = 0
    /\ (Len(Positive(args.counts)) <= 1 /\ pc = "pielou_done") =>
          ret = Exact(Num(0))

\* pielou_evenness has returned 0 for a vector of several entries of which
\* exactly one is positive.
C11_Witness ==
    /\ pc = "pielou_done"
    /\ Len(args.counts) >= 2
    /\ Len(Positive(args.counts)) = 1
    /\ ret = Exact(Num(0))

(***************************************************************************)
(* AbundanceTable: what the claims speak of.                               *)
(***************************************************************************)
\* C12: filter_low_abundance with min_prevalence = 0 and min_abundance = 0
\* returns the table it was given, rows, columns and values, and with
\* min_prevalence = 1.1 it returns a table with no feature row.
C12_FilterIdentityAndEmpty ==
    pc = "filter_done" =>
        /\ (args.min_prevalence = Num(0) /\ args.min_abundance = Num(0)) =>
              /\ ret.index = args.counts_df.index
              /\ ret.columns = args.counts_df.columns
              /\ ret.values = args.counts_df.values
        /\ args.min_prevalence = <<11, 10>> => ret.index = <<>>

\* C13: normalize_by_total_reads returns the table with the same features
\* and samples, every column whose sample is no key of total_reads with its
\* values as they were, and every value v of a column whose sample is a key
\* replaced by v / total_reads[sample] * scale.
C13_NormalizeLeavesAbsentSamples ==
    pc = "normalize_done" =>
        /\ ret.index = args.counts_df.index
        /\ ret.columns = args.counts_df.columns
        /\ Len(ret.values) = Len(args.counts_df.index)
        /\ \A i \in 1..Len(args.counts_df.index) :
              /\ Len(ret.values[i]) = Len(args.counts_df.columns)
              /\ \A k \in 1..Len(args.counts_df.columns) :
                    LET v == args.counts_df.values[i][k]
                        sample == args.counts_df.columns[k]
                    IN  IF sample \in DOMAIN args.total_reads
                        THEN ret.values[i][k] =
                                Frac(v[1] * args.scale[1],
                                     v[2] * args.total_reads[sample] * args.scale[2])
                        ELSE ret.values[i][k] = v

\* A table normalized with the default scale in which s1 has a read total
\* of 2 and a positive value, and s2 has no read total and a positive value.
C13_Witness ==
    /\ pc = "normalize_done"
    /\ args.scale = Scale
    /\ DOMAIN args.total_reads = {"s1", "s3"}
    /\ args.total_reads["s1"] = 2
    /\ args.counts_df.columns = <<"s1", "s2">>
    /\ Len(args.counts_df.index) >= 1
    /\ args.counts_df.values[1] = <<Num(1), Num(2)>>
    /\ ret.values[1] = <<Num(500000), Num(2)>>

\* The category a feature is counted under: its entry in arg_to_class, or
\* "Unknown" when it has none.
CategoryOf(feature) ==
    IF feature \in DOMAIN args.arg_to_class THEN args.arg_to_class[feature]
    ELSE "Unknown"

\* C14: aggregate_by_drug_class returns exactly one row per distinct
\* category among the features of the table, features without a mapping
\* counted under "Unknown", and each row is the per-sample sum of the rows
\* of the features of its category.
C14_OneRowPerCategory ==
    pc = "aggregate_done" =>
        LET df == args.counts_df
            cats == {CategoryOf(df.index[i]) : i \in 1..Len(df.index)}
        IN  /\ Len(ret.index) = Cardinality(cats)
            /\ Elems(ret.index) = cats
            /\ ret.columns = df.columns
            /\ \A g \in 1..Len(ret.index), k \in 1..Len(df.columns) :
                  ret.values[g][k] =
                     LET rows == SelectSeq([i \in 1..Len(df.index) |-> i],
                                    LAMBDA i : CategoryOf(df.index[i]) = ret.index[g])
                     IN  FSum([m \in 1..Len(rows) |-> df.values[rows[m]][k]])

\* An aggregate of two rows, "Unknown" holding a feature without a mapping.
C14_Witness ==
    /\ pc = "aggregate_done"
    /\ Len(args.counts_df.columns) >= 1
    /\ Len(ret.index) = 2
    /\ ret.index[1] = "Unknown"
    /\ \E i \in 1..Len(args.counts_df.index) :
          /\ args.counts_df.index[i] \notin DOMAIN args.arg_to_class
          /\ FLt(Num(0), args.counts_df.values[i][1])

(***************************************************************************)
(* log2_fold_change of equal means.  A fold change is kept as the rational *)
(* it is the base-2 logarithm of, so it is 0 exactly when that rational is *)
(* 1.                                                                      *)
(***************************************************************************)
FoldChangeIsZero(fc) == fc.log2_of = Num(1)

\* C15: log2_fold_change(m, m, pseudocount) is 0 for every non-negative
\* mean m and positive pseudocount, and every row compare_groups returns
\* whose two group means are equal has a log2_fold_change of 0.
C15_EqualMeansFoldZero ==
    /\ (/\ pc = "fold_done"
        /\ ~IsNaN(args.group1_mean)
        /\ args.group1_mean = args.group2_mean) => FoldChangeIsZero(ret)
    /\ CgReturned =>
          \A i \in 1..Len(ret.table) :
              (/\ ~IsNaN(ret.table[i].mean_group1)
               /\ ret.table[i].mean_group1 = ret.table[i].mean_group2) =>
                  FoldChangeIsZero(ret.table[i].log2_fold_change)

\* compare_groups has returned a row whose two groups have the same
\* positive mean, and another whose means differ.
C15_Witness ==
    /\ CgReturned
    /\ \E i, j \in 1..Len(ret.table) :
          /\ FLt(Num(0), ret.table[i].mean_group1)
          /\ ret.table[i].mean_group1 = ret.table[i].mean_group2
          /\ FoldChangeIsZero(ret.table[i].log2_fold_change)
          /\ FLt(ret.table[j].mean_group1, ret.table[j].mean_group2)
          /\ ~FoldChangeIsZero(ret.table[j].log2_fold_change)

(***************************************************************************)
(* run_full_analysis: what the claims speak of.                            *)
(***************************************************************************)
RunEnded == pc \in {"run_done", "run_raised"}

FilesReadable == args.abundance_file.readable /\ args.metadata_file.readable

HasSampleType ==
    /\ args.metadata_file.readable
    /\ "sample_type" \in Elems(args.metadata_file.table.columns)

\* The sections of the result file.
Sections == DOMAIN locals.output_file.content

\* C16: with scipy unavailable and readable inputs the run does not raise,
\* and when it is done the result file holds the sample and feature counts
\* and the alpha diversity of every sample and has neither a beta_diversity
\* nor a differential_abundance section; with scipy available a finished
\* run has written beta_diversity, and differential_abundance exactly when
\* the metadata has a sample_type column.
C16_StagesFollowScipy ==
    /\ (~args.SCIPY_AVAILABLE /\ FilesReadable) => pc # "run_raised"
    /\ (~args.SCIPY_AVAILABLE /\ pc = "run_done") =>
          /\ locals.output_file.written
          /\ Sections = {"samples_analyzed", "features_analyzed", "alpha_diversity"}
          /\ locals.output_file.content.samples_analyzed =
                Len(args.abundance_file.table.columns)
          /\ locals.output_file.content.features_analyzed =
                Len(args.abundance_file.table.index)
          /\ Len(locals.output_file.content.alpha_diversity) =
                Len(args.abundance_file.table.columns)
    /\ (args.SCIPY_AVAILABLE /\ pc = "run_done") =>
          /\ locals.output_file.written
          /\ "beta_diversity" \in Sections
          /\ "differential_abundance" \in Sections <=> HasSampleType

\* A run without scipy is done on a table of two samples or more and a
\* metadata table with the sample_type column, its result written without
\* the two sections.
C16_Witness ==
    /\ pc = "run_done"
    /\ ~args.SCIPY_AVAILABLE
    /\ HasSampleType
    /\ Len(args.abundance_file.table.columns) >= 2
    /\ Len(args.abundance_file.table.index) >= 1
    /\ locals.output_file.written
    /\ "beta_diversity" \notin Sections
    /\ "differential_abundance" \notin Sections

\* C17 as stated: a run on an unreadable abundance or metadata file, or on
\* a metadata table without the sample_type column, ends with an error and
\* without a result file.
C17_MalformedIsFatal ==
    (RunEnded /\ (~FilesReadable \/ ~HasSampleType)) =>
        (pc = "run_raised" /\ ~locals.output_file.written)

\* C17, amended: a run on an unreadable abundance or metadata file ends in
\* the load stage with an error, and no run that ends with an error has
\* written a result file; a metadata table without the sample_type column
\* is no error: the run never enters the differential abundance stage, and
\* when it is done the result file is written without a
\* differential_abundance section.
C17_UnreadableIsFatal ==
    /\ (~FilesReadable /\ pc # "run_load") =>
          /\ pc = "run_raised"
          /\ locals.stages = <<"load">>
    /\ pc = "run_raised" =>
          /\ ret.raised # ""
          /\ ~locals.output_file.written
          /\ locals.opened = 0
    /\ (FilesReadable /\ ~HasSampleType) =>
          /\ "diff" \notin Elems(locals.stages)
          /\ pc = "run_done" =>
                /\ locals.output_file.written
                /\ "differential_abundance" \notin Sections

\* A run on a readable abundance table and an unreadable metadata file has
\* ended with the error of read_csv and no result file.
C17_Witness ==
    /\ pc = "run_raised"
    /\ args.abundance_file.readable
    /\ ~args.metadata_file.readable
    /\ ret.raised = "FileNotFoundError"
    /\ ~locals.output_file.written

\* The five stages in their order.
StageOrder == <<"load", "alpha", "beta", "diff", "save">>

\* C20: the stages a run has entered are in the order load, alpha, beta,
\* diff, save, none twice and none but beta and diff left out; the result
\* file is opened for writing at most once, by the save stage as the last
\* step of a run in which load and alpha completed and beta and diff each
\* completed or were skipped for lack of scipy or of the sample_type
\* column; a run that raised has written no file.
C20_FixedOrderSingleWrite ==
    /\ \A i \in 1..Len(locals.stages) : locals.stages[i] \in Elems(StageOrder)
    /\ \A i, j \in 1..Len(locals.stages) :
          i < j => PositionOf(StageOrder, locals.stages[i])
                     < PositionOf(StageOrder, locals.stages[j])
    /\ pc # "run_load" => locals.stages[1] = "load"
    /\ pc \notin {"run_load", "run_alpha"} =>
          (Len(locals.stages) >= 2 => locals.stages[2] = "alpha")
    /\ locals.opened <= 1
    /\ locals.output_file.written <=> locals.opened = 1
    /\ locals.opened = 1 =>
          /\ pc = "run_done"
          /\ locals.stages[Len(locals.stages)] = "save"
          /\ {"load", "alpha"} \subseteq Elems(locals.stages)
          /\ "beta" \in Elems(locals.stages) <=> locals.self.beta
          /\ "diff" \in Elems(locals.stages) <=>
                (locals.self.diff_abundance /\ HasSampleType)
    /\ pc = "run_raised" => locals.opened = 0
    /\ pc = "run_done" => locals.opened = 1

\* A run is done that went through all five stages and wrote its result.
C20_Witness ==
    /\ pc = "run_done"
    /\ locals.stages = StageOrder
    /\ locals.output_file.written
    /\ Len(locals.output_file.content.differential_abundance) >= 2

(***************************************************************************)
(* fdr_correction against the Benjamini-Hochberg step-up definition.       *)
(***************************************************************************)
\* min(1, p * n / j)
StepUpCandidate(p, n, j) ==
    IF p[1] * n > p[2] * j THEN Num(1) ELSE Frac(p[1] * n, p[2] * j)

\* The least of min(1, p_j * n / j) over the ranks j >= i.
StepUpMinimum(ps, i) ==
    LET n == Len(ps)
        cands == {StepUpCandidate(ps[j], n, j) : j \in i..n}
    IN  CHOOSE x \in cands : \A y \in cands : FLe(x, y)

\* C19: the table fdr_correction returns holds the rows it was given in
\* ascending order of raw p-value; the adjusted p-value of the row of rank
\* i is the minimum over the ranks j >= i of min(1, p_j * n / j); and a row
\* is flagged significant if and only if its adjusted p-value is strictly
\* less than alpha.
C19_StepUpValues ==
    FdrReturned =>
        LET n == Len(args.result_df)
            ps == Column(ret, "p_value")
        IN  /\ Len(ret) = n
            /\ \E q \in SortOrders(Column(args.result_df, "p_value")) :
                  \A i \in 1..n :
                      /\ ret[i].feature = args.result_df[q[i]].feature
                      /\ ret[i].p_value = args.result_df[q[i]].p_value
            /\ \A i \in 1..(n - 1) : FLe(ps[i], ps[i + 1])
            /\ \A i \in 1..n :
                  /\ ret[i].p_adjusted = StepUpMinimum(ps, i)
                  /\ ret[i].significant <=>
                        (ret[i].p_adjusted[1] * args.alpha[2]
                            < args.alpha[1] * ret[i].p_adjusted[2])

\* A table corrected once in which one adjusted p-value is below alpha and
\* flagged, and another equals alpha and is not flagged.
C19_Witness ==
    /\ pc = "fdr_once"
    /\ \E i, j \in 1..Len(ret) :
          /\ FLt(ret[i].p_adjusted, args.alpha)
          /\ ret[i].significant
          /\ FLt(ret[i].p_value, ret[i].p_adjusted)
          /\ ret[j].p_adjusted = args.alpha
          /\ ~ret[j].significant

(***************************************************************************)
(* The caller's objects.                                                   *)
(***************************************************************************)
\* C18: after any calls of the routines, the abundance table and the result
\* table the caller holds have the rows, columns and values they had
\* before the calls.
C18_InputsNotMutated ==
    pc = "owner" =>
        /\ locals.heap[args.abundance_df] = args.before[1]
        /\ locals.heap[args.result_df] = args.before[2]

\* fdr_correction has returned, as the last of MaxCalls calls, a corrected
\* table of two rows in another order than the caller's table, which has
\* no p_adjusted column.
C18_Witness ==
    /\ pc = "owner"
    /\ locals.calls = MaxCalls
    /\ locals.last = "fdr_correction"
    /\ Len(ret) = 2
    /\ "p_adjusted" \in DOMAIN ret[1]
    /\ ret[1].feature # locals.heap[args.result_df][1].feature
    /\ "p_adjusted" \notin DOMAIN locals.heap[args.result_df][1]

(***************************************************************************)
(* Jaccard distances.                                                      *)
(***************************************************************************)
\* C21: every entry (i, j) of the distance matrix with metric jaccard
\* equals jaccard_distance of samples i and j, the Jaccard distance of the
\* binarized rows.
C21_JaccardMatrixIsJaccardDistance ==
    pc = "jaccard_matrix_done" =>
        \A i, j \in 1..Len(args.abundance_matrix) :
            ret.values[i][j] = JaccardDistance(args.abundance_matrix[i],
                                               args.abundance_matrix[j])

(***************************************************************************)
(* pcoa: the retained axes.                                                *)
(***************************************************************************)
\* The positions of the eigh result that pcoa did not retain.
Dropped ==
    {m \in 1..Len(locals.eigh_eigenvalues) :
        \A k \in 1..Len(locals.eigenvectors) : locals.eigenvectors[k] # m}

\* C22: when pcoa returns, the retained eigenvalues are the n_components
\* largest of the double-centered matrix in descending order, axis k
\* carries the eigenvector of its own eigenvalue, and an axis whose
\* eigenvalue is negative or zero is scaled by zero, so that all its
\* coordinates are zero.
C22_LargestDescendingClamped ==
    PcoaReturned =>
        /\ Len(locals.eigenvalues) = args.n_components
        /\ \A k \in 1..args.n_components :
              /\ locals.eigh_eigenvalues[locals.eigenvectors[k]] = locals.eigenvalues[k]
              /\ ret.coord_df.values[k].eigenvector = locals.eigenvectors[k]
              /\ ret.coord_df.values[k].scale_sq =
                     IF FLe(locals.eigenvalues[k], Num(0)) THEN Num(0)
                     ELSE locals.eigenvalues[k]
              /\ \A j \in 1..args.n_components :
                     /\ k < j => FLe(locals.eigenvalues[j], locals.eigenvalues[k])
                     /\ k # j => locals.eigenvectors[k] # locals.eigenvectors[j]
              /\ \A m \in Dropped :
                     FLe(locals.eigh_eigenvalues[m], locals.eigenvalues[k])

\* pcoa has returned two axes of three, the first with a positive
\* eigenvalue and the second with a zero one, leaving out a negative
\* eigenvalue.
C22_Witness ==
    /\ PcoaReturned
    /\ args.n_components = 2
    /\ Len(locals.eigh_eigenvalues) = 3
    /\ FLt(Num(0), locals.eigenvalues[1])
    /\ locals.eigenvalues[2] = Num(0)
    /\ ret.coord_df.values[2].scale_sq = Num(0)
    /\ \E m \in Dropped : FLt(locals.eigh_eigenvalues[m], locals.eigenvalues[2])

(***************************************************************************)
(* Chao1.                                                                  *)
(***************************************************************************)
\* The number of entries of the argument with the given property.
EntriesPositive == Cardinality({i \in 1..Len(args.counts) : args.counts[i][1] > 0})

EntriesEqual(k) ==
    Cardinality({i \in 1..Len(args.counts) :
                    args.counts[i][1] = k * args.counts[i][2]})

\* C23: chao1_estimator returns S_obs + f1^2 / (2 f2) when there are
\* doubletons and S_obs + f1 (f1 - 1) / 2 when there are none, a number
\* (nothing is divided by zero) that is at least the observed richness.
C23_Chao1Formula ==
    pc = "chao1_done" =>
        /\ ~IsNaN(ret)
        /\ ret = IF EntriesEqual(2) > 0
                 THEN FAdd(Num(EntriesPositive),
                           Frac(EntriesEqual(1) * EntriesEqual(1), 2 * EntriesEqual(2)))
                 ELSE FAdd(Num(EntriesPositive),
                           Frac(EntriesEqual(1) * (EntriesEqual(1) - 1), 2))
        /\ FLe(Num(ObservedRichness(args.counts)), ret)
        /\ ObservedRichness(args.counts) = EntriesPositive

\* chao1_estimator has returned for a vector with two singletons, no
\* doubleton and a fractional value: one more than the three observed.
C23_Witness ==
    /\ pc = "chao1_done"
    /\ EntriesEqual(1) = 2
    /\ EntriesEqual(2) = 0
    /\ EntriesPositive = 3
    /\ ret = Num(4)

(***************************************************************************)
(* Zero entries and the order of the entries.                              *)
(***************************************************************************)
\* The same values the same number of times.
SameBag(u, v) ==
    /\ Len(u) = Len(v)
    /\ \A e \in {u[i] : i \in 1..Len(u)} :
          Cardinality({i \in 1..Len(u) : u[i] = e})
              = Cardinality({i \in 1..Len(v) : v[i] = e})

\* Two floats kept as expressions have the same value: a sum does not
\* depend on the order of its terms.
SameLog(x, y) ==
    /\ DOMAIN x = DOMAIN y
    /\ IF "exact" \in DOMAIN x THEN x = y
       ELSE /\ SameBag(x.neg_sum_p_ln_p, y.neg_sum_p_ln_p)
            /\ "over_ln" \in DOMAIN x => x.over_ln = y.over_ln

SameRounded(x, y) ==
    /\ DOMAIN x = DOMAIN y
    /\ IF "round4_of" \in DOMAIN x THEN SameLog(x.round4_of, y.round4_of)
       ELSE x = y

SameMetrics(m, n) ==
    /\ m.observed_richness = n.observed_richness
    /\ m.simpson_index = n.simpson_index
    /\ m.chao1_estimator = n.chao1_estimator
    /\ SameLog(m.shannon_index, n.shannon_index)
    /\ SameLog(m.pielou_evenness, n.pielou_evenness)
    /\ m.calculate_all.observed_richness = n.calculate_all.observed_richness
    /\ m.calculate_all.simpson_index = n.calculate_all.simpson_index
    /\ m.calculate_all.chao1_estimator = n.calculate_all.chao1_estimator
    /\ SameRounded(m.calculate_all.shannon_index, n.calculate_all.shannon_index)
    /\ SameRounded(m.calculate_all.pielou_evenness, n.calculate_all.pielou_evenness)

PrevalentEnough(i) ==
    LET n == Len(args.counts_df.columns)
        present == Cardinality({k \in 1..n : args.counts_df.values[i][k][1] > 0})
    IN  n > 0 /\ present * args.min_prevalence[2] >= args.min_prevalence[1] * n

\* The mean of row i over all the samples is at least min_abundance.
AbundantEnough(i) ==
    LET n == Len(args.counts_df.columns)
        total == FSum(args.counts_df.values[i])
    IN  n > 0 /\ total[1] * args.min_abundance[2]
                    >= args.min_abundance[1] * n * total[2]

RetainedRows ==
    {i \in 1..Len(args.counts_df.index) : PrevalentEnough(i) /\ AbundantEnough(i)}

\* C25: filter_low_abundance returns exactly the rows that meet both
\* thresholds, in their original order and with all the sample columns; a
\* row that meets one threshold only is not returned.
C25_BothThresholds ==
    pc = "filter_done" =>
        /\ ret.columns = args.counts_df.columns
        /\ Len(ret.index) = Cardinality(RetainedRows)
        /\ Len(ret.values) = Cardinality(RetainedRows)
        /\ \A i \in RetainedRows :
              LET j == Cardinality({m \in RetainedRows : m <= i})
              IN  /\ ret.index[j] = args.counts_df.index[i]
                  /\ ret.values[j] = args.counts_df.values[i]

\* A table was filtered whose first row is prevalent enough but not
\* abundant enough and whose second row meets both thresholds: the second
\* row alone is returned.
C25_Witness ==
    /\ pc = "filter_done"
    /\ Len(args.counts_df.index) = 2
    /\ PrevalentEnough(1) /\ ~AbundantEnough(1)
    /\ RetainedRows = {2}
    /\ ret.index = <<args.counts_df.index[2]>>

(***************************************************************************)
(* compare_groups: the samples that count.                                 *)
(***************************************************************************)
\* The row of abundance_df of a feature.
RowOf(feature) == PositionOf(args.abundance_df.index, feature)

\* The sum and the mean of row i over the columns labelled name.
GroupSum(i, name) ==
    FSum([k \in 1..Len(args.abundance_df.columns) |->
            IF k \in GroupColumns(name) THEN args.abundance_df.values[i][k]
            ELSE Num(0)])

GroupMean(i, name) ==
    FDiv(GroupSum(i, name), Num(Cardinality(GroupColumns(name))))

\* The U statistic of row i over the columns of the two groups.
GroupU(i) ==
    LET pairs == GroupColumns(args.group1_name) \X GroupColumns(args.group2_name)
        above == {q \in pairs : FLt(args.abundance_df.values[i][q[2]],
                                    args.abundance_df.values[i][q[1]])}
        level == {q \in pairs : args.abundance_df.values[i][q[1]]
                                   = args.abundance_df.values[i][q[2]]}
    IN  IF pairs = {} THEN NaN
        ELSE Frac(2 * Cardinality(above) + Cardinality(level), 2)

\* A sample with one of the two group labels is no column of abundance_df.
LabelledSampleMissing ==
    \E j \in 1..Len(args.group_labels.index) :
        /\ args.group_labels.values[j] \in {args.group1_name, args.group2_name}
        /\ args.group_labels.index[j] \notin Elems(args.abundance_df.columns)

\* C26: in the table compare_groups returns, the means and the statistic
\* of a feature are those of the columns labelled group1_name and of the
\* columns labelled group2_name, and a feature is left out only when these
\* columns are all zero; when compare_groups raises, a labelled sample is
\* missing from the matrix, a group has no sample, or no feature was
\* scored, whatever unlabelled or otherwise labelled samples the matrix has.
C26_OnlyGroupSamplesCount ==
    pc = "cg_done" =>
        IF ret.raised = ""
        THEN /\ \A r \in 1..Len(ret.table) :
                   LET i == RowOf(ret.table[r].feature)
                   IN  /\ ret.table[r].mean_group1 = GroupMean(i, args.group1_name)
                       /\ ret.table[r].mean_group2 = GroupMean(i, args.group2_name)
                       /\ ret.table[r].statistic = GroupU(i)
             /\ \A i \in 1..Len(args.abundance_df.index) :
                   AllZeroInBothGroups(i) <=>
                       \A r \in 1..Len(ret.table) :
                           ret.table[r].feature # args.abundance_df.index[i]
        ELSE \/ LabelledSampleMissing
             \/ GroupColumns(args.group1_name) = {}
             \/ GroupColumns(args.group2_name) = {}
             \/ \A i \in 1..Len(args.abundance_df.index) : AllZeroInBothGroups(i)

\* compare_groups has returned for a table whose third sample carries
\* another label: the first feature, present in that sample only, is left
\* out, and the second, absent from the first group, has a first mean of 0
\* although the third sample has it.
C26_Witness ==
    /\ CgReturned
    /\ Len(args.abundance_df.index) = 2
    /\ GroupColumns(args.group1_name) = {1}
    /\ GroupColumns(args.group2_name) = {2}
    /\ args.group_labels.index = CgColumns
    /\ args.group_labels.values[3] = OtherLabel
    /\ args.abundance_df.values[1] = <<Num(0), Num(0), Num(1)>>
    /\ args.abundance_df.values[2] = <<Num(0), Num(1), Num(1)>>
    /\ Len(ret.table) = 1
    /\ ret.table[1].feature = args.abundance_df.index[2]
    /\ ret.table[1].mean_group1 = Num(0)
    /\ ret.table[1].mean_group2 = Num(1)

(***************************************************************************)
(* fdr_correction: ties and bounds.                                        *)
(***************************************************************************)
\* The adjusted value of a raw p-value p in a table, from the raw p-values
\* of the table alone: the least, over the raw p-values q >= p of the
\* table, of min(1, q * n / (number of rows with a raw p-value <= q)).
TieFreeAdjusted(df, p) ==
    LET n == Len(df)
        AtMost(q) == Cardinality({i \in 1..n : FLe(df[i].p_value, q)})
        cands == {StepUpCandidate(df[i].p_value, n, AtMost(df[i].p_value)) :
                     i \in {k \in 1..n : FLe(p, df[k].p_value)}}
    IN  CHOOSE x \in cands : \A y \in cands : FLe(x, y)

\* C27: rows with equal raw p-values get equal adjusted p-values and equal
\* flags, and the adjusted p-value and the flag of a feature are fixed by
\* its raw p-value and the raw p-values of the table, whatever the order of
\* the rows given and however the sort orders equal p-values.
C27_TiesAdjustedAlike ==
    FdrReturned =>
        \A i \in 1..Len(ret) :
            /\ ret[i].p_adjusted = TieFreeAdjusted(args.result_df, ret[i].p_value)
            /\ ret[i].significant <=> FLt(ret[i].p_adjusted, args.alpha)
            /\ \A j \in 1..Len(ret) :
                  ret[i].p_value = ret[j].p_value =>
                      /\ ret[i].p_adjusted = ret[j].p_adjusted
                      /\ ret[i].significant = ret[j].significant

\* A table of three rows with the same raw p-value below 1 was corrected,
\* the sort having put the row given last first.
C27_Witness ==
    /\ pc = "fdr_once"
    /\ Len(ret) = 3
    /\ ret[1].p_value = ret[3].p_value
    /\ FLt(Num(0), ret[1].p_value)
    /\ FLt(ret[1].p_value, Num(1))
    /\ ret[1].feature = 3
    /\ ret[1].p_adjusted = ret[1].p_value

RunLabelledSampleMissing ==
    \E j \in 1..Len(locals.metadata_df.sample_type.index) :
        /\ locals.metadata_df.sample_type.values[j] \in {NonMedical, MedicalInfluenced}
        /\ locals.metadata_df.sample_type.index[j]
              \notin Elems(locals.abundance_df.columns)

\* C29: a run whose differential abundance stage called compare_groups
\* with a labelled sample that the matrix lacks has not gone on to save:
\* compare_groups raised, and a run that ended by an exception has written
\* no result file.
C29_MissingLabelledSampleRaises ==
    /\ (/\ pc \in {"run_save", "run_done"}
        /\ RunsDiffAbundance(locals.self, locals.metadata_df))
           => ~RunLabelledSampleMissing
    /\ pc = "run_raised" => locals.output_file = NoFile /\ locals.opened = 0

\* A run over a table with a feature and the samples s1 and s2, both
\* labelled, has ended in the differential abundance stage by the KeyError
\* for s3, labelled but no column, with no file written.
C29_Witness ==
    /\ pc = "run_raised"
    /\ locals.stages = <<"load", "alpha", "beta", "diff">>
    /\ ret.raised = "KeyError"
    /\ Len(locals.abundance_df.index) > 0
    /\ locals.abundance_df.columns = <<"s1", "s2">>
    /\ \E j \in 1..Len(locals.metadata_df.sample_type.index) :
          /\ locals.metadata_df.sample_type.index[j] = "s3"
          /\ locals.metadata_df.sample_type.values[j] = MedicalInfluenced
    /\ locals.output_file = NoFile

(***************************************************************************)
(* process_sample: the steps and the trimmed file.                         *)
(***************************************************************************)
\* The method calls of a whole process_sample, annotation included or not.
CallsWith(annotated) ==
    (IF args.r2_path THEN <<"run_fastqc", "run_fastqc">> ELSE <<"run_fastqc">>)
    \o <<"run_fastp">>
    \o (IF annotated THEN <<"run_rgi_bwt", "parse_rgi_results">> ELSE <<>>)

\* C30: process_sample runs QC, then trimming, then annotation; it runs
\* the annotation and parses its results exactly when the trimmed R1 file
\* exists after the trimming step, whether or not that step passed: the
\* arg_results returned are not None exactly then, and annotation_passed
\* is true only then.
C30_AnnotationFollowsTrimmedFile ==
    pc = "ps_done" =>
        /\ locals.calls = CallsWith(locals.disk.trimmed_r1)
        /\ ret.arg_results # None <=> locals.disk.trimmed_r1
        /\ ret.annotation_passed => locals.disk.trimmed_r1

\* A sample was processed without fastp installed, so that trimming did
\* not pass, over a trimmed R1 file left on disk: the annotation ran and
\* passed and its results were parsed.
C30_Witness ==
    /\ pc = "ps_done"
    /\ ~args.tools["fastp"]
    /\ ~ret.trimming_passed
    /\ locals.disk.trimmed_r1
    /\ ret.annotation_passed
    /\ ret.arg_results.parsed
    /\ locals.calls = <<"run_fastqc", "run_fastp", "run_rgi_bwt", "parse_rgi_results">>

=============================================================================
